---- MODULE Spec2Model ----
(***************************************************************************)
(* A model of kochen.ipcutil: the dispatch table of ServerInternal/Server, *)
(* the serve loop, the reconnecting client and the stubs of the Client     *)
(* facade, over the stream transport of multiprocessing.connection; and of *)
(* the file cache of kochen.datautil (filecache, datacache).               *)
(*                                                                         *)
(* Strings are sequences of character codes, so that str.lower(),          *)
(* str.startswith(), concatenation and substring tests are computed.       *)
(* A Python value is a record [t |-> type name, v |-> sequence of codes].  *)
(***************************************************************************)
EXTENDS Integers, Sequences, FiniteSets, TLC

VARIABLES
    registered_calls,   \* ServerInternal.registered_calls: insertion-ordered dict, a sequence of [name, f]
    registered_props,   \* Server.registered_props: set of property names
    _instances,         \* Server._instances: set of registered instances
    attr,               \* the attribute self.val of every Dev instance
    api,                \* history: the last register/unregister/remote call made, the state it was
                        \* made in and its outcome; fresh names the instance whose registration
                        \* on an empty table (no prefix) built the present table
    first_reg,          \* history: name -> callable of the first successful registration since the name was last free
    server,             \* the ServerInternal object and the place its run() is at
    conns,              \* the connections made so far, oldest first
    client,             \* the ClientInternal objects and the place each one's operation is at
    files,              \* the file at each cache path of kochen.datautil.filecache
    clock,              \* the time datetime.now() returns, advanced by every evaluation of a cached function
    cached              \* history: the last call of a cached function or of datacache, its outcome,
                        \* the files before it, and what has been stored at each path so far

regvars == <<registered_calls, registered_props, _instances, attr, api, first_reg>>
netvars == <<server, conns, client>>
cachevars == <<files, clock, cached>>
vars == <<registered_calls, registered_props, _instances, attr, api, first_reg, server, conns, client,
          files, clock, cached>>

----------------------------------------------------------------------------
(* Bounds of the model. *)

\* Largest integer argument a client passes.
MaxArg == 2

----------------------------------------------------------------------------
(* Strings. *)

str_sq      == <<115, 113>>                          \* "sq"
str_SQ      == <<83, 81>>                            \* "SQ"
str_Bo      == <<66, 111>>                           \* "Bo"
str_bo      == <<98, 111>>                           \* "bo"
str_no      == <<110, 111>>                          \* "no"
str_zz      == <<122, 122>>                          \* "zz"
str_tr      == <<116, 114>>                          \* "tr"
str_Zz      == <<90, 122>>                           \* "Zz"
str_lambda  == <<60, 108, 97, 109, 98, 100, 97, 62>> \* "<lambda>"
str_help    == <<104, 101, 108, 112>>                \* "help"
str_close   == <<99, 108, 111, 115, 101>>            \* "close"
str_x       == <<120>>                               \* "x"
str_m       == <<109>>                               \* "m"
str_read    == <<114, 101, 97, 100>>                 \* "read"
str_p       == <<112>>                               \* "p"
str_q       == <<113>>                               \* "q"
str_init    == <<95, 95, 105>>                       \* "__i", a dunder member
str_a_      == <<97, 95>>                            \* "a_", an instance prefix
str_empty   == <<>>                                  \* ""
str_dunder  == <<95, 95>>                            \* "__"
str_get_    == <<103, 101, 116, 95>>                 \* "get_"
str_set_    == <<115, 101, 116, 95>>                 \* "set_"
str_del_    == <<100, 101, 108, 95>>                 \* "del_"
\* "Command '"
str_Command == <<67, 111, 109, 109, 97, 110, 100, 32, 39>>
\* "' is not registered."
str_not_registered ==
    <<39, 32, 105, 115, 32, 110, 111, 116, 32, 114, 101, 103, 105, 115, 116, 101, 114, 101, 100, 46>>
\* "No help available."
str_no_help ==
    <<78, 111, 32, 104, 101, 108, 112, 32, 97, 118, 97, 105, 108, 97, 98, 108, 101, 46>>
\* "Available calls: "
str_available_calls ==
    <<65, 118, 97, 105, 108, 97, 98, 108, 101, 32, 99, 97, 108, 108, 115, 58, 32>>
\* "\nAvailable properties: "
str_available_props ==
    <<10, 65, 118, 97, 105, 108, 97, 98, 108, 101, 32, 112, 114, 111, 112, 101, 114, 116, 105, 101, 115, 58, 32>>

\* name=None of register(f, name=None); no string holds a negative code.
None == << -1 >>

\* The int 5 where a string is expected, as in client.write(5).
int_5 == << -2, 5 >>

\* isinstance(s, str)
IsStr(s) == \A i \in 1..Len(s) : s[i] >= 0

\* str.lower() on ASCII.
Lower(s) == [i \in 1..Len(s) |-> IF s[i] >= 65 /\ s[i] <= 90 THEN s[i] + 32 ELSE s[i]]

\* s.startswith(p)
StartsWith(s, p) == Len(s) >= Len(p) /\ SubSeq(s, 1, Len(p)) = p

\* sub in s
Contains(s, sub) == \E i \in 0..(Len(s) - Len(sub)) : SubSeq(s, i + 1, i + Len(sub)) = sub

----------------------------------------------------------------------------
(* Python values. *)

PyNone      == [t |-> "NoneType", v |-> <<>>]
PyInt(n)    == [t |-> "int", v |-> <<n>>]
PyStr(s)    == [t |-> "str", v |-> s]
\* An exception value: its type and its message.
PyExc(type, msg) == [t |-> type, v |-> msg]

\* pickle can encode the value: the instances of a class defined inside a
\* function cannot be.
Picklable(value) == value.t # "LocalError"

msg_bind == <<98, 105, 110, 100>>   \* arguments do not match the signature
msg_mul  == <<109, 117, 108>>       \* operand of the wrong type
msg_boom == <<98, 111, 111, 109>>   \* "boom"

----------------------------------------------------------------------------
(* The callables a server program registers.                               *)
(*   def sq(x): return x * x                                               *)
(*   def Bo(): raise ValueError("boom")                                    *)
(*   def no(): return None                                                 *)
(*   def tr():                                                             *)
(*       class LocalError(Exception): pass                                 *)
(*       raise LocalError()           (an exception pickle cannot encode)  *)
(*   lambda x: x                                                           *)
(*   class Dev:                                                            *)
(*       def __i(self): ...            (dunder member)                     *)
(*       def m(self, x): return self.val + x                               *)
(*       p = property(lambda self: self.val + 1)          (getter only)    *)
(*       q = property(fget, fset, fdel) over self.val                      *)
(*   class Port:                                                           *)
(*       def read(self): ...                                               *)
(*   def close(): return None          (a function named like a reserved   *)
(*   class Valve:                       command, and a class with such a   *)
(*       def close(self): ...           method)                            *)

Functions == {"square", "boom", "noop", "lambda"}
Instances == {"dev1", "dev2", "addr"}

\* instance.__class__
ClassOf(instance) ==
    IF instance = "addr" THEN "str" ELSE IF instance = "valve" THEN "Valve" ELSE "Dev"

\* f.__name__ of a plain function
FuncName(f) ==
    CASE f = "square" -> str_sq
      [] f = "boom"   -> str_Bo
      [] f = "noop"   -> str_no
      [] f = "trap"   -> str_tr
      [] f = "close"  -> str_close
      [] f = "lambda" -> str_lambda

\* A callable: self is the instance a closure captured ("none" for a plain
\* function), name its __name__, code the function body it runs.
PlainFunction(f) == [self |-> "none", name |-> FuncName(f), code |-> f]

\* The function f(*args, **kwargs) that __create_closure returns.
Closure(instance, name, method) == [self |-> instance, name |-> name, code |-> method]

\* No callable (Python's None where a callable is expected).
NoCall == [self |-> "none", name |-> None, code |-> "None"]

\* inspect.getmembers(cls, predicate=inspect.isfunction), sorted by name.
ClassFunctions(cls) ==
    IF cls = "Dev"
    THEN << [name |-> str_init, method |-> "Dev.__i"],
            [name |-> str_m,    method |-> "Dev.m"] >>
    ELSE IF cls = "Port"
    THEN << [name |-> str_read, method |-> "Port.read"] >>
    ELSE IF cls = "Valve"
    THEN << [name |-> str_close, method |-> "Valve.close"] >>
    ELSE << >>

\* inspect.getmembers(cls, predicate=isinstance(x, property)), sorted by name.
ClassProperties(cls) ==
    IF cls = "Dev"
    THEN << [name |-> str_p, fget |-> "Dev.p.fget", fset |-> "None",       fdel |-> "None"],
            [name |-> str_q, fget |-> "Dev.q.fget", fset |-> "Dev.q.fset", fdel |-> "Dev.q.fdel"] >>
    ELSE << >>

\* The declared parameters (after self) of a callable.
Params(c) ==
    CASE c.code \in {"square", "lambda", "Dev.m", "Dev.q.fset"} -> <<str_x>>
      [] OTHER -> <<>>

\* f.__doc__ / inspect.getdoc(method); None when the function has no docstring.
Doc(c) == IF c.code \in {"square", "Dev.m"} THEN c.name ELSE None

\* Python's argument binding: every parameter gets exactly one value, positionally
\* or by keyword. kwargs is a sequence of [k |-> key, v |-> value].
BindOK(params, args, kwargs) ==
    /\ Len(args) + Len(kwargs) = Len(params)
    /\ \A i \in 1..Len(kwargs) :
          /\ \E j \in (Len(args) + 1)..Len(params) : params[j] = kwargs[i].k
          /\ \A j \in 1..Len(kwargs) : j # i => kwargs[j].k # kwargs[i].k

\* The value bound to the (single) parameter.
Arg1(args, kwargs) == IF Len(args) > 0 THEN args[1] ELSE kwargs[1].v

Returns(value, vals) == [kind |-> "ret", val |-> value, vals |-> vals]
Raises(exc, vals)    == [kind |-> "raise", val |-> exc, vals |-> vals]

\* Running callable c on (*args, **kwargs) with instance attributes vals:
\* [kind |-> "ret" | "raise", val |-> returned or raised value, vals |-> attributes after].
\* A closure first binds the arguments to the method's signature (TypeError if
\* they do not match); a plain function's call does the same.
Apply(c, args, kwargs, vals) ==
    IF ~BindOK(Params(c), args, kwargs)
    THEN Raises(PyExc("TypeError", msg_bind), vals)
    ELSE
    CASE c.code = "square" ->
            LET x == Arg1(args, kwargs) IN
            IF x.t = "int" THEN Returns(PyInt(x.v[1] * x.v[1]), vals)
                           ELSE Raises(PyExc("TypeError", msg_mul), vals)
      [] c.code = "boom"   -> Raises(PyExc("ValueError", msg_boom), vals)
      [] c.code = "noop"   -> Returns(PyNone, vals)
      [] c.code = "trap"   -> Raises(PyExc("LocalError", << >>), vals)
      [] c.code = "lambda" -> Returns(Arg1(args, kwargs), vals)
      [] c.code = "Dev.m" ->
            LET x == Arg1(args, kwargs) IN
            IF x.t = "int" THEN Returns(PyInt(vals[c.self] + x.v[1]), vals)
                           ELSE Raises(PyExc("TypeError", msg_mul), vals)
      [] c.code = "Dev.p.fget" -> Returns(PyInt(vals[c.self] + 1), vals)
      [] c.code = "Dev.q.fget" -> Returns(PyInt(vals[c.self]), vals)
      [] c.code = "Dev.q.fset" ->
            LET x == Arg1(args, kwargs) IN
            IF x.t = "int" THEN Returns(PyNone, [vals EXCEPT ![c.self] = x.v[1]])
                           ELSE Raises(PyExc("TypeError", msg_mul), vals)
      [] c.code = "Dev.q.fdel" -> Returns(PyNone, [vals EXCEPT ![c.self] = 0])
      [] c.code = "Port.read"  -> Returns(PyNone, vals)
      [] c.code \in {"close", "Valve.close"} -> Returns(PyNone, vals)

----------------------------------------------------------------------------
(* The dispatch table: ServerInternal and Server. *)

\* auxiliary_calls.keys()
auxiliary_calls == {str_help, str_close}

\* ServerInternal.has_registered
has_registered(calls, name) == \E i \in 1..Len(calls) : calls[i].name = name

\* registered_calls.get(name, None)
Get(calls, name) ==
    IF has_registered(calls, name)
    THEN calls[CHOOSE i \in 1..Len(calls) : calls[i].name = name].f
    ELSE NoCall

\* list(registered_calls.keys())
Keys(calls) == [i \in 1..Len(calls) |-> calls[i].name]

\* del registered_calls[name]
Del(calls, name) == SelectSeq(calls, LAMBDA e : e.name # name)

\* register, binding an anonymous function under its __name__.
register_names_lambda(calls, f, name) ==
    LET n == Lower(IF name = None THEN f.name ELSE name) IN
    IF has_registered(calls, n)
    THEN [result |-> "False", calls |-> calls]
    ELSE [result |-> "True", calls |-> Append(calls, [name |-> n, f |-> f])]

\* register, storing the name in the letter case it was given.
register_keeps_case(calls, f, name) ==
    IF name = None /\ f.name = str_lambda
    THEN [result |-> "ValueError", calls |-> calls]
    ELSE LET n == IF name = None THEN f.name ELSE name IN
         IF has_registered(calls, n)
         THEN [result |-> "False", calls |-> calls]
         ELSE [result |-> "True", calls |-> Append(calls, [name |-> n, f |-> f])]

\* register, overwriting an existing entry instead of refusing.
register_overwrites(calls, f, name) ==
    IF name = None /\ f.name = str_lambda
    THEN [result |-> "ValueError", calls |-> calls]
    ELSE LET n == Lower(IF name = None THEN f.name ELSE name) IN
         [result |-> "True", calls |-> Append(Del(calls, n), [name |-> n, f |-> f])]

\* ServerInternal.register(f, name): [result |-> "True" | "False" | "ValueError", calls |-> the table after].
register(calls, f, name) ==
    IF name = None /\ f.name = str_lambda
    THEN [result |-> "ValueError", calls |-> calls]
    ELSE LET n == Lower(IF name = None THEN f.name ELSE name) IN
         IF has_registered(calls, n)
         THEN [result |-> "False", calls |-> calls]
         ELSE [result |-> "True", calls |-> Append(calls, [name |-> n, f |-> f])]

\* unregister, reporting success for a name it did not remove.
unregister_reports_success(calls, isfunction, arg) ==
    IF isfunction /\ arg = str_lambda
    THEN [result |-> "ValueError", calls |-> calls]
    ELSE [result |-> "True", calls |-> IF arg \in auxiliary_calls THEN calls ELSE Del(calls, arg)]

\* ServerInternal.unregister(f) for a name or a plain function (arg is the
\* name, or the function's __name__).
unregister(calls, isfunction, arg) ==
    IF isfunction /\ arg = str_lambda
    THEN [result |-> "ValueError", calls |-> calls]
    ELSE IF arg \in auxiliary_calls
    THEN [result |-> "False", calls |-> calls]
    ELSE IF ~has_registered(calls, arg)
    THEN [result |-> "False", calls |-> calls]
    ELSE [result |-> "True", calls |-> Del(calls, arg)]

\* The (replacement, original, function) triples of the class's property accessors.
RECURSIVE PropertyEntries(_, _)
PropertyEntries(props, prefix) ==
    IF props = << >> THEN << >>
    ELSE LET prop == Head(props)
             name == prefix \o prop.name
             one(func, method) ==
                 IF method = "None" THEN << >>
                 ELSE << [command |-> func \o name, name |-> name, method |-> method] >>
         IN  IF StartsWith(prop.name, str_dunder)
             THEN PropertyEntries(Tail(props), prefix)
             ELSE one(str_get_, prop.fget) \o one(str_set_, prop.fset) \o one(str_del_, prop.fdel)
                  \o PropertyEntries(Tail(props), prefix)

\* extract_methods without the test for the dunder marker on functions.
extract_methods_keeps_dunder(cls, prefix) ==
    LET fs == ClassFunctions(cls)
    IN  [i \in 1..Len(fs) |->
            [command |-> prefix \o fs[i].name, name |-> prefix \o fs[i].name, method |-> fs[i].method]]
        \o PropertyEntries(ClassProperties(cls), prefix)

\* extract_methods(cls, prefix): the sequence of triples it yields.
extract_methods(cls, prefix) ==
    LET fs == SelectSeq(ClassFunctions(cls), LAMBDA e : ~StartsWith(e.name, str_dunder))
    IN  [i \in 1..Len(fs) |->
            [command |-> prefix \o fs[i].name, name |-> prefix \o fs[i].name, method |-> fs[i].method]]
        \o PropertyEntries(ClassProperties(cls), prefix)

\* The loop of Server.register over the extracted triples: each closure is
\* registered under its command (the outcome of that registration is not looked
\* at), and a property's name is recorded.
RECURSIVE RegisterEntries(_, _, _, _)
RegisterEntries(calls, props, entries, instance) ==
    IF entries = << >> THEN [calls |-> calls, props |-> props]
    ELSE LET e == Head(entries)
             r == register(calls, Closure(instance, e.name, e.method), e.command)
         IN  RegisterEntries(r.calls,
                             IF e.command # e.name THEN props \cup {e.name} ELSE props,
                             Tail(entries), instance)

\* The loop of Server.unregister over the extracted triples.
RECURSIVE UnregisterEntries(_, _, _)
UnregisterEntries(calls, props, entries) ==
    IF entries = << >> THEN [calls |-> calls, props |-> props]
    ELSE LET e == Head(entries)
             r == unregister(calls, FALSE, e.command)
         IN  UnregisterEntries(r.calls,
                               IF e.command # e.name THEN props \ {e.name} ELSE props,
                               Tail(entries))

----------------------------------------------------------------------------
(* The wire protocol and the handling of one request in ServerInternal._r.  *)

\* CtrlMsg.<name>.value
CtrlMsg == [OK |-> 200, ERROR |-> 400, ERROR_FORWARDED |-> 500, INFO |-> 100]

\* CtrlMsg(status_code): the member with that value.
CtrlMsgOf(status_code) ==
    CASE status_code = 200 -> "OK"
      [] status_code = 400 -> "ERROR"
      [] status_code = 500 -> "ERROR_FORWARDED"
      [] status_code = 100 -> "INFO"
      [] OTHER             -> "ValueError"

\* The decimal digits of n >= 0.
RECURSIVE Digits(_)
Digits(n) == IF n < 10 THEN <<48 + n>> ELSE Digits(n \div 10) \o <<48 + (n % 10)>>

\* str(value) inside an f-string.
StrOf(value) ==
    CASE value.t = "str"      -> value.v
      [] value.t = "int"      -> Digits(value.v[1])
      [] value.t = "NoneType" -> <<78, 111, 110, 101>>
      [] OTHER                -> value.v

\* str(list of strings): "['a', 'b']"
RECURSIVE ReprItems(_)
ReprItems(names) ==
    IF names = << >> THEN << >>
    ELSE <<39>> \o Head(names) \o <<39>>
         \o (IF Len(names) > 1 THEN <<44, 32>> ELSE << >>) \o ReprItems(Tail(names))
ReprList(names) == <<91>> \o ReprItems(names) \o <<93>>

\* list(a set): its elements in the set's iteration order (one fixed order).
SetToSeq(S) ==
    CHOOSE q \in [1..Cardinality(S) -> S] : \A e \in S : \E i \in 1..Cardinality(S) : q[i] = e

\* Server.__help_available_commands and Server.help_client
help_client(calls, props) ==
    LET hidden(call) == /\ Len(call) >= 4
                        /\ SubSeq(call, 1, 4) \in {str_get_, str_set_}
                        /\ SubSeq(call, 5, Len(call)) \in props
        shown == SelectSeq(Keys(calls), LAMBDA call : ~hidden(call))
    IN  str_available_calls \o ReprList(shown)
        \o str_available_props \o ReprList(SetToSeq(props))

\* A reply that does not name the command.
NotRegisteredReply_unnamed(command) == str_Command \o str_not_registered

\* What ServerInternal._r sends for a request it could not resolve.
NotRegisteredReply(command) == str_Command \o command \o str_not_registered

\* A message a client writes: [command, args, kwargs].
Request(command, args, kwargs) == [command |-> command, args |-> args, kwargs |-> kwargs]

\* One iteration of the serve loop on a received message (command, args, kwargs):
\*   act     "close" (restart = False, connection closed, loop left), "send",
\*           or "raise" (an exception, in data, leaves _r)
\*   status  the status code sent, data its payload
\*   invoked the registered callable that was run (NoCall if none)
\*   vals    the instances' attributes afterwards
\* send that reports INFO as ERROR.
Sent_info_as_error(ctrl_msg, data, invoked, vals) ==
    [act |-> "send", status |-> IF ctrl_msg = CtrlMsg.INFO THEN CtrlMsg.ERROR ELSE ctrl_msg,
     data |-> data, invoked |-> invoked, vals |-> vals]

\* send that forwards str(e) in place of the exception e.
Sent_forwards_text(ctrl_msg, data, invoked, vals) ==
    [act |-> "send", status |-> ctrl_msg,
     data |-> IF ctrl_msg = CtrlMsg.ERROR_FORWARDED THEN PyStr(data.v) ELSE data,
     invoked |-> invoked, vals |-> vals]

Sent(ctrl_msg, data, invoked, vals) ==
    [act |-> "send", status |-> ctrl_msg, data |-> data, invoked |-> invoked, vals |-> vals]

\* An exception raised outside the try statement, or inside its handler.
Escapes(exc, invoked, vals) ==
    [act |-> "raise", status |-> 0, data |-> PyExc(exc, << >>), invoked |-> invoked, vals |-> vals]

HandleMessage(calls, props, vals, message) ==
    LET lowered == Lower(message.command)
        args    == message.args
        is_help == lowered = str_help /\ Len(args) > 0
        \* command = args[0]: the key looked up is whatever value the client passed
        command == IF is_help THEN StrOf(args[1]) ELSE lowered
        isname  == ~is_help \/ args[1].t = "str"
        \* registered_calls.get(command, auxiliary_calls.get(command, None))
        f       == IF isname THEN Get(calls, command) ELSE NoCall
    IN  IF ~IsStr(message.command)
        \* command.lower(): the command has no such attribute
        THEN Escapes("AttributeError", NoCall, vals)
        ELSE IF lowered = str_close
        THEN [act |-> "close", status |-> 0, data |-> PyNone, invoked |-> NoCall, vals |-> vals]
        ELSE IF lowered = str_help /\ Len(args) = 0
        THEN Sent(CtrlMsg.INFO, PyStr(help_client(calls, props)), NoCall, vals)
        ELSE IF f = NoCall
        THEN IF is_help
             THEN Sent(CtrlMsg.INFO,
                       PyStr(NotRegisteredReply(command) \o <<10>> \o help_client(calls, props)),
                       NoCall, vals)
             ELSE Sent(CtrlMsg.ERROR, PyStr(NotRegisteredReply(command)), NoCall, vals)
        ELSE IF is_help
        THEN Sent(CtrlMsg.INFO, PyStr(IF Doc(f) = None THEN str_no_help ELSE Doc(f)), NoCall, vals)
        ELSE LET r == Apply(f, args, message.kwargs, vals)
             IN  IF r.kind = "ret"
                 THEN IF Picklable(r.val)
                      THEN Sent(CtrlMsg.OK, r.val, f, r.vals)
                      \* send(CtrlMsg.OK, result) raised inside the try
                      ELSE Sent(CtrlMsg.ERROR_FORWARDED, PyExc("AttributeError", << >>), f, r.vals)
                 ELSE IF Picklable(r.val)
                      THEN Sent(CtrlMsg.ERROR_FORWARDED, r.val, f, r.vals)
                      \* send(CtrlMsg.ERROR_FORWARDED, e) raised inside the handler
                      ELSE Escapes("AttributeError", f, r.vals)

\* read that returns nothing for an OK reply.
read_drops_result(data) ==
    LET status == CtrlMsgOf(data.status) IN
    CASE status \in {"OK", "INFO"}  -> [kind |-> "return", val |-> PyNone]
      [] status = "ERROR"           -> [kind |-> "raise", val |-> PyExc("BadRequest", data.data.v)]
      [] status = "ERROR_FORWARDED" -> [kind |-> "raise", val |-> data.data]
      [] OTHER                      -> [kind |-> "raise", val |-> PyExc("ValueError", << >>)]

\* ClientInternal.read on received data (status_code, result):
\* [kind |-> "return" | "raise", val |-> the value returned or raised].
read(data) ==
    LET status == CtrlMsgOf(data.status) IN
    CASE status = "OK"              -> [kind |-> "return", val |-> data.data]
      [] status = "INFO"            -> [kind |-> "return", val |-> PyNone]
      [] status = "ERROR"           -> [kind |-> "raise", val |-> PyExc("BadRequest", data.data.v)]
      [] status = "ERROR_FORWARDED" -> [kind |-> "raise", val |-> data.data]
      [] OTHER                      -> [kind |-> "raise", val |-> PyExc("ValueError", << >>)]

----------------------------------------------------------------------------
(* The transport: multiprocessing.connection over TCP, as ServerInternal    *)
(* and ClientInternal use it.                                               *)
(*                                                                          *)
(* A connection has a client end and a server end. Each end has a queue of  *)
(* data sent to it and not yet received, and a pending socket condition:    *)
(*   "none"  the peer's end is open                                         *)
(*   "fin"   the peer closed its end                                        *)
(*   "rst"   the peer reset the connection: it closed with data of this end *)
(*           unread, or the listener was closed before it accepted          *)
(*   "pipe"  this end already sent into, or was told of, a closed peer      *)
(* unanswered records history: the requests the client end wrote whose      *)
(* response it has not read yet, oldest first.                              *)

str_abc == <<97, 98, 99>>     \* "abc"
str_xyz == <<120, 121, 122>>  \* "xyz"

Clients == {1, 2}

\* Number of connections clients open.
MaxConns == 3

\* Number of operations (connect, call, close) the clients' programs make in all.
MaxOps == 4

\* Connection.send at an end whose pending condition is err: the exception it
\* raises ("ok" if none), whether the peer gets the data, the condition after.
SendOn(err) ==
    CASE err = "none" -> [r |-> "ok", delivered |-> TRUE, err |-> "none"]
      [] err = "fin"  -> [r |-> "ok", delivered |-> FALSE, err |-> "pipe"]
      [] err = "rst"  -> [r |-> "ConnectionResetError", delivered |-> FALSE, err |-> "pipe"]
      [] err = "pipe" -> [r |-> "BrokenPipeError", delivered |-> FALSE, err |-> "pipe"]

\* Connection.recv at an end with the given queue of unread data: "data" (the
\* head of the queue), "block" (nothing to read yet), or the exception raised.
RecvOn(queue, err) ==
    IF queue # << >> THEN [r |-> "data", err |-> err]
    ELSE CASE err = "none" -> [r |-> "block", err |-> "none"]
           [] err = "fin"  -> [r |-> "EOFError", err |-> "fin"]
           [] err = "rst"  -> [r |-> "ConnectionResetError", err |-> "pipe"]
           [] err = "pipe" -> [r |-> "EOFError", err |-> "pipe"]

\* The condition the peer sees after an end is closed that had `unread` queued.
AfterPeerClose(err, unread) ==
    IF err # "none" THEN err ELSE IF unread # << >> THEN "rst" ELSE "fin"

\* A connection made by _Client((address, port)), waiting in the listener's
\* backlog. behind records history while it waits there: the connection _r
\* was serving when this one was made (0 if none).
NewConnection(owner, behind) ==
    [owner |-> owner, c |-> "open", s |-> "backlog", cerr |-> "none", serr |-> "none",
     req |-> << >>, resp |-> << >>, unanswered |-> << >>, behind |-> behind]

\* Connection.close() at the client end / at the server end.
CloseClientEnd(conn) ==
    IF conn.c = "closed" THEN conn
    ELSE [conn EXCEPT !.c = "closed", !.resp = << >>, !.unanswered = << >>, !.behind = 0,
                      !.serr = AfterPeerClose(conn.serr, conn.resp)]
CloseServerEnd(conn) ==
    IF conn.s = "closed" THEN conn
    ELSE [conn EXCEPT !.s = "closed", !.req = << >>,
                      !.cerr = AfterPeerClose(conn.cerr, conn.req)]

\* Listener.close() on a connection the listener never accepted.
DropFromBacklog(conn) ==
    [conn EXCEPT !.s = "closed", !.req = << >>, !.behind = 0,
                 !.cerr = IF conn.cerr = "none" THEN "rst" ELSE conn.cerr]

\* What travels from the server to a client: a pickled (status_code, data)
\* reply of _r, or bytes of the authentication handshake. A reply also
\* records history: the message it answers and the callable that was run.
Reply(h, message) ==
    [t |-> "reply", status |-> h.status, data |-> h.data, invoked |-> h.invoked,
     request |-> message]
HandshakeBytes ==
    [t |-> "bytes", status |-> 0, data |-> PyNone, invoked |-> NoCall,
     request |-> Request(None, << >>, << >>)]

\* send/recv of the client end and of the server end of a connection.
ClientSend(conn, message) ==
    LET s == SendOn(conn.cerr) IN
    [r |-> s.r,
     conn |-> [conn EXCEPT !.cerr = s.err,
                           !.req = IF s.delivered /\ conn.s # "closed"
                                   THEN Append(conn.req, message) ELSE conn.req,
                           !.unanswered = IF s.r = "ok" /\ Lower(message.command) # str_close
                                          THEN Append(@, message) ELSE @]]
ServerSend(conn, data) ==
    LET s == SendOn(conn.serr) IN
    [r |-> s.r,
     conn |-> [conn EXCEPT !.serr = s.err,
                           !.resp = IF s.delivered /\ conn.c # "closed"
                                    THEN Append(conn.resp, data) ELSE conn.resp]]
ClientRecv(conn) ==
    LET r == RecvOn(conn.resp, conn.cerr) IN
    [r |-> r.r, data |-> IF r.r = "data" THEN Head(conn.resp) ELSE HandshakeBytes,
     conn |-> [conn EXCEPT !.cerr = r.err,
                           !.resp = IF r.r = "data" THEN Tail(conn.resp) ELSE conn.resp,
                           !.unanswered = IF r.r = "data" /\ Head(conn.resp).t = "reply"
                                                /\ conn.unanswered # << >>
                                          THEN Tail(@) ELSE @]]
ServerRecv(conn) ==
    LET r == RecvOn(conn.req, conn.serr) IN
    [r |-> r.r, data |-> IF r.r = "data" THEN Head(conn.req) ELSE Request(None, << >>, << >>),
     conn |-> [conn EXCEPT !.serr = r.err,
                           !.req = IF r.r = "data" THEN Tail(conn.req) ELSE conn.req]]

----------------------------------------------------------------------------
(* The server: ServerInternal.run and ServerInternal._r.                    *)

PyTrue  == [t |-> "bool", v |-> <<1>>]
PyFalse == [t |-> "bool", v |-> <<0>>]

\* The functions the server program registers before run(), in this order.
Script == <<"square", "boom", "noop">>

\* ServerInternal.__init__(secret=...): pc is the place run() is at,
\* connection the one _r serves (an index of conns, 0 for none), error the
\* exception that ended run(). served and closed_by record history: the
\* clients whose messages _r has handled, the connection a close came on.
ServerInit(secret) ==
    [secret |-> secret, pc |-> "init", restart |-> TRUE, listener |-> "none",
     connection |-> 0, error |-> "none", served |-> {}, closed_by |-> 0]

\* ClientInternal.__init__(secret=...): connection is self.connection (an
\* index of conns, 0 for None), pending the connection _Client is still
\* authenticating, pc the place the running operation is at, n the number of
\* operations started, out the outcome of the last one; reconnects tells that
\* the operation before it was a close(server=False) of an open connection.
\* In an outcome, status, invoked and answers are those of the reply read;
\* down tells that the operation tried to make a connection after a close
\* request had made the server close its listener; via is the name the stub
\* of a Client facade forwards, if the operation was started by one; runs
\* counts the times the server ran a callable for the request of this call().
NoRequest == Request(None, << >>, << >>)
NoOutcome ==
    [op |-> "none", kind |-> "none", val |-> PyNone, status |-> 0, invoked |-> NoCall,
     request |-> NoRequest, answers |-> NoRequest, down |-> FALSE, closed |-> FALSE,
     via |-> None, runs |-> 0]
ClientInit(secret) ==
    [secret |-> secret, connection |-> 0, pending |-> 0, pc |-> "idle", n |-> 0,
     out |-> NoOutcome, reconnects |-> FALSE]

\* A close request has ended _r and the listener has been closed since.
ShutDown == server.closed_by # 0 /\ server.pc \in {"loop", "done"}

\* ClientInternal.is_closed
is_closed(cl) == cl.connection = 0 \/ conns[cl.connection].c = "closed"

\* The running operation ends: it returned val, or raised val.
Done(cl, kind, val) == [cl EXCEPT !.pc = "idle", !.out.kind = kind, !.out.val = val]

\* The server program registers the next function of its script.
Register(f) ==
    /\ server.pc = "init"
    /\ Len(registered_calls) < Len(Script)
    /\ f = Script[Len(registered_calls) + 1]
    /\ registered_calls' = register(registered_calls, PlainFunction(f), None).calls
    /\ UNCHANGED <<registered_props, _instances, attr, api, first_reg, server, conns, client, cachevars>>

\* run(): self.restart = True, and the loop is entered.
Run ==
    /\ server.pc = "init"
    /\ server' = [server EXCEPT !.pc = "loop", !.restart = TRUE]
    /\ UNCHANGED <<regvars, conns, client, cachevars>>

\* while self.restart: self.listener = Listener(...); run() returns otherwise.
Listen ==
    /\ server.pc = "loop"
    /\ server' = IF server.restart
                 THEN [server EXCEPT !.pc = "accept", !.listener = "open"]
                 ELSE [server EXCEPT !.pc = "done"]
    /\ UNCHANGED <<regvars, conns, client, cachevars>>

\* self.listener.accept(): the oldest connection of the backlog is taken.
\* With an authkey the listener then authenticates the peer: a client that
\* has an authkey is inside _Client answering, and both sides finish (or
\* fail) together; a client without one has already returned from _Client,
\* so the listener sends its challenge and waits for an answer.
Accept ==
    /\ server.pc = "accept"
    /\ \E k \in 1..Len(conns) :
        /\ conns[k].s = "backlog"
        /\ \A j \in 1..(k - 1) : conns[j].s # "backlog"
        /\ LET o  == conns[k].owner
               cl == client[o]
           IN
           IF server.secret = None
           THEN /\ server' = [server EXCEPT !.pc = "serve", !.connection = k]
                /\ conns' = [conns EXCEPT ![k].s = "open", ![k].behind = 0]
                /\ UNCHANGED client
           ELSE IF cl.pc = "handshake" /\ cl.pending = k
           THEN IF cl.secret = server.secret
                THEN /\ server' = [server EXCEPT !.pc = "serve", !.connection = k]
                     /\ conns' = [conns EXCEPT ![k].s = "open", ![k].behind = 0]
                     /\ client' = [client EXCEPT ![o] =
                            IF cl.out.op = "connect"
                            THEN Done([cl EXCEPT !.connection = k, !.pending = 0], "return", PyTrue)
                            ELSE [cl EXCEPT !.connection = k, !.pending = 0, !.pc = "write"]]
                ELSE \* AuthenticationError on both sides; accept() is outside the try
                     /\ server' = [server EXCEPT !.pc = "crashed", !.error = "AuthenticationError"]
                     /\ conns' = [conns EXCEPT ![k] = CloseClientEnd(CloseServerEnd(conns[k]))]
                     /\ client' = [client EXCEPT ![o] =
                            Done([cl EXCEPT !.pending = 0], "raise", PyExc("AuthenticationError", << >>))]
           ELSE /\ server' = [server EXCEPT !.pc = "auth", !.connection = k]
                /\ conns' = [conns EXCEPT ![k] =
                        ServerSend([conns[k] EXCEPT !.s = "open", !.behind = 0], HandshakeBytes).conn]
                /\ UNCHANGED client
    /\ UNCHANGED <<regvars, cachevars>>

\* Still inside accept(): deliver_challenge reads the peer's answer. What a
\* client without an authkey sent is no valid digest (AuthenticationError);
\* if it closed instead, the read fails. Either exception ends run().
Authenticate ==
    /\ server.pc = "auth"
    /\ LET k == server.connection
           r == ServerRecv(conns[k])
       IN  /\ r.r # "block"
           /\ server' = [server EXCEPT !.pc = "crashed", !.connection = 0,
                             !.error = IF r.r = "data" THEN "AuthenticationError" ELSE r.r]
           /\ conns' = [conns EXCEPT ![k] =
                   CloseServerEnd(IF r.r = "data"
                                  THEN ServerSend(r.conn, HandshakeBytes).conn ELSE r.conn)]
    /\ UNCHANGED <<regvars, client, cachevars>>

\* History kept when _r handles the message at the head of connection k as h:
\* a client waiting in the read() of call() wrote its request last, so the
\* callable is run for that call when no other request is queued behind it.
RunsCounted(k, h) ==
    LET o == conns[k].owner IN
    IF h.invoked # NoCall /\ client[o].pc = "read" /\ client[o].connection = k
                          /\ Len(conns[k].req) = 1
    THEN [client EXCEPT ![o].out.runs = @ + 1]
    ELSE client

\* One iteration of the loop of _r on the served connection.
Serve ==
    /\ server.pc = "serve"
    /\ LET k == server.connection
           r == ServerRecv(conns[k])
           h == HandleMessage(registered_calls, registered_props, attr, r.data)
           s == ServerSend(r.conn, Reply(h, r.data))
       IN  /\ r.r # "block"
           /\ IF r.r # "data"
              THEN \* EOFError, ConnectionResetError: break
                   /\ server' = [server EXCEPT !.pc = "finally"]
                   /\ conns' = [conns EXCEPT ![k] = r.conn]
                   /\ UNCHANGED <<attr, client>>
              ELSE IF h.act = "close"
              THEN /\ server' = [server EXCEPT !.pc = "finally", !.restart = FALSE,
                                     !.served = @ \cup {conns[k].owner}, !.closed_by = k]
                   /\ conns' = [conns EXCEPT ![k] = CloseServerEnd(r.conn)]
                   /\ UNCHANGED <<attr, client>>
              ELSE IF h.act = "raise"
              THEN \* an exception of the handling leaves _r
                   /\ server' = [server EXCEPT !.served = @ \cup {conns[k].owner},
                                     !.pc = "finally", !.error = h.data.t]
                   /\ conns' = [conns EXCEPT ![k] = r.conn]
                   /\ attr' = h.vals
                   /\ client' = RunsCounted(k, h)
              ELSE /\ attr' = h.vals
                   /\ client' = RunsCounted(k, h)
                   /\ conns' = [conns EXCEPT ![k] = s.conn]
                   /\ server' = IF s.r = "ok"
                                THEN [server EXCEPT !.served = @ \cup {conns[k].owner}]
                                ELSE \* the exception of send leaves _r
                                     [server EXCEPT !.served = @ \cup {conns[k].owner},
                                                    !.pc = "finally", !.error = s.r]
    /\ UNCHANGED <<registered_calls, registered_props, _instances, api, first_reg, cachevars>>

\* The end of the loop body without self.listener.close().
ListenerClose_leaves_open ==
    /\ server.pc = "finally"
    /\ server' = [server EXCEPT !.connection = 0,
                      !.pc = IF server.error = "none" THEN "loop" ELSE "crashed"]
    /\ conns' = [conns EXCEPT ![server.connection] = CloseServerEnd(@)]
    /\ UNCHANGED <<regvars, client, cachevars>>

\* finally: self.listener.close(). Connections nobody accepted are reset; the
\* served connection object is dropped. An exception that left _r ends run().
ListenerClose ==
    /\ server.pc = "finally"
    /\ server' = [server EXCEPT !.listener = "closed", !.connection = 0,
                      !.pc = IF server.error = "none" THEN "loop" ELSE "crashed"]
    /\ conns' = [k \in 1..Len(conns) |->
                    IF conns[k].s = "backlog" THEN DropFromBacklog(conns[k])
                    ELSE IF k = server.connection THEN CloseServerEnd(conns[k])
                    ELSE conns[k]]
    /\ UNCHANGED <<regvars, client, cachevars>>

----------------------------------------------------------------------------
(* The client: ClientInternal.connect, close and call.                      *)

\* Requests the clients' programs make with call().
CallRequests ==
    {Request(str_sq, <<PyInt(MaxArg)>>, << >>),
     Request(str_Bo, << >>, << >>),
     Request(str_no, << >>, << >>),
     Request(str_Zz, << >>, << >>)}

\* The operations started so far.
RECURSIVE SumOps(_)
SumOps(S) == IF S = {} THEN 0 ELSE LET c == CHOOSE c \in S : TRUE IN client[c].n + SumOps(S \ {c})
OpsStarted == SumOps(Clients)

\* A client's program starts an operation: op is "connect", "call", "close"
\* (close(server=False)) or "shutdown" (close(server=True)).
Start(cl, op, request) ==
    [cl EXCEPT !.n = cl.n + 1,
               !.reconnects = (cl.out.op = "close" /\ cl.out.closed),
               !.out = [NoOutcome EXCEPT !.op = op, !.request = request],
               !.pc = "connect"]

\* client.connect()
ClientConnect(c) ==
    /\ client[c].pc = "idle" /\ OpsStarted < MaxOps
    /\ client' = [client EXCEPT ![c] = Start(client[c], "connect", NoRequest)]
    /\ UNCHANGED <<regvars, server, conns, cachevars>>

\* client.call(command, *args, **kwargs)
ClientCall(c, request) ==
    /\ client[c].pc = "idle" /\ OpsStarted < MaxOps
    /\ client' = [client EXCEPT ![c] = Start(client[c], "call", request)]
    /\ UNCHANGED <<regvars, server, conns, cachevars>>

\* client.close(server): with server=True it first connects and writes "close";
\* with server=False it only closes the connection, if one is open.
ClientClose(c, to_server) ==
    /\ client[c].pc = "idle" /\ OpsStarted < MaxOps
    /\ IF to_server
       THEN /\ client' = [client EXCEPT ![c] = Start(client[c], "shutdown", NoRequest)]
            /\ UNCHANGED conns
       ELSE LET cl == Start(client[c], "close", NoRequest) IN
            /\ client' = [client EXCEPT ![c] =
                    Done([cl EXCEPT !.out.closed = ~is_closed(client[c])], "return", PyNone)]
            /\ conns' = IF is_closed(client[c]) THEN conns
                        ELSE [conns EXCEPT ![cl.connection] = CloseClientEnd(@)]
    /\ UNCHANGED <<regvars, server, cachevars>>

\* connect() returned True inside the running operation.
Connected(cl) ==
    IF cl.out.op = "connect" THEN Done(cl, "return", PyTrue) ELSE [cl EXCEPT !.pc = "write"]

\* connect() returned False: call() sleeps RECONNECTION_TIMEOUT and tries
\* again, close() has nothing to write or close.
Refused(cl) ==
    CASE cl.out.op = "connect" -> Done(cl, "return", PyFalse)
      [] cl.out.op = "call"    -> cl
      [] OTHER                 -> Done(cl, "return", PyNone)

\* ClientInternal.connect: True if a connection is open; otherwise
\* _Client((address, port), authkey=secret). Without a listener that raises
\* ConnectionRefusedError, which connect() turns into False. With one, the
\* connection is made at once (it waits in the backlog); a client with an
\* authkey then waits inside _Client for the listener's challenge.
Connect(c) ==
    LET cl == client[c] IN
    /\ cl.pc = "connect"
    /\ IF ~is_closed(cl)
       THEN /\ client' = [client EXCEPT ![c] = Connected(cl)]
            /\ UNCHANGED conns
       ELSE IF server.listener # "open"
       THEN /\ client' = [client EXCEPT ![c] =
                    Refused([cl EXCEPT !.out.down = ShutDown])]
            /\ UNCHANGED conns
       ELSE /\ Len(conns) < MaxConns
            /\ conns' = Append(conns, NewConnection(c, IF server.pc = "serve"
                                                        THEN server.connection ELSE 0))
            /\ client' = [client EXCEPT ![c] =
                    IF cl.secret = None
                    THEN Connected([cl EXCEPT !.connection = Len(conns) + 1, !.out.down = ShutDown])
                    ELSE [cl EXCEPT !.pending = Len(conns) + 1, !.pc = "handshake",
                                    !.out.down = ShutDown]]
    /\ UNCHANGED <<regvars, server, cachevars>>

\* Inside _Client, answer_challenge reads from a connection the listener
\* dropped: the exception is none that connect() catches.
Handshake(c) ==
    LET cl == client[c]
        r  == ClientRecv(conns[cl.pending])
    IN  /\ cl.pc = "handshake"
        /\ r.r \notin {"block", "data"}
        /\ conns' = [conns EXCEPT ![cl.pending] = CloseClientEnd(r.conn)]
        /\ client' = [client EXCEPT ![c] = Done([cl EXCEPT !.pending = 0], "raise", PyExc(r.r, << >>))]
        /\ UNCHANGED <<regvars, server, cachevars>>

\* self.write(...): in call(), a BrokenPipeError closes the connection and
\* starts over; any other exception leaves call(). In close(server=True)
\* the connection is closed after the write, and every exception leaves close().
Write(c) ==
    LET cl == client[c]
        k  == cl.connection
        message == IF cl.out.op = "shutdown" THEN Request(str_close, << >>, << >>)
                   ELSE cl.out.request
        s  == ClientSend(conns[k], message)
    IN  /\ cl.pc = "write"
        /\ IF s.r = "ok"
           THEN IF cl.out.op = "shutdown"
                THEN /\ conns' = [conns EXCEPT ![k] = CloseClientEnd(s.conn)]
                     /\ client' = [client EXCEPT ![c] =
                            Done([cl EXCEPT !.out.closed = TRUE], "return", PyNone)]
                ELSE /\ conns' = [conns EXCEPT ![k] = s.conn]
                     /\ client' = [client EXCEPT ![c].pc = "read"]
           ELSE IF s.r = "BrokenPipeError" /\ cl.out.op = "call"
           THEN /\ conns' = [conns EXCEPT ![k] = CloseClientEnd(s.conn)]
                /\ client' = [client EXCEPT ![c].pc = "connect"]
           ELSE /\ conns' = [conns EXCEPT ![k] = s.conn]
                /\ client' = [client EXCEPT ![c] = Done(cl, "raise", PyExc(s.r, << >>))]
        /\ UNCHANGED <<regvars, server, cachevars>>

\* call() that also starts over when the reply read reports an error.
Read_retries_on_error(c) ==
    LET cl == client[c]
        k  == cl.connection
        r  == ClientRecv(conns[k])
        o  == read(r.data)
    IN  /\ cl.pc = "read"
        /\ r.r # "block"
        /\ IF r.r = "data"
           THEN /\ conns' = [conns EXCEPT ![k] = r.conn]
                /\ client' = [client EXCEPT ![c] =
                        IF r.data.t = "bytes"
                        THEN Done(cl, "raise", PyExc("UnpicklingError", << >>))
                        ELSE IF o.kind = "raise" /\ cl.out.runs < 2
                        THEN [cl EXCEPT !.pc = "connect"]
                        ELSE Done([cl EXCEPT !.out.status = r.data.status,
                                             !.out.invoked = r.data.invoked,
                                             !.out.answers = r.data.request], o.kind, o.val)]
           ELSE /\ conns' = [conns EXCEPT ![k] = CloseClientEnd(r.conn)]
                /\ client' = [client EXCEPT ![c].pc = "connect"]
        /\ UNCHANGED <<regvars, server, cachevars>>

\* return self.read() in call(): EOFError and ConnectionResetError close the
\* connection and start over. Data that is no pickled reply fails to unpickle.
Read(c) ==
    LET cl == client[c]
        k  == cl.connection
        r  == ClientRecv(conns[k])
        o  == read(r.data)
    IN  /\ cl.pc = "read"
        /\ r.r # "block"
        /\ IF r.r = "data"
           THEN /\ conns' = [conns EXCEPT ![k] = r.conn]
                /\ client' = [client EXCEPT ![c] =
                        IF r.data.t = "bytes"
                        THEN Done(cl, "raise", PyExc("UnpicklingError", << >>))
                        ELSE Done([cl EXCEPT !.out.status = r.data.status,
                                             !.out.invoked = r.data.invoked,
                                             !.out.answers = r.data.request], o.kind, o.val)]
           ELSE /\ conns' = [conns EXCEPT ![k] = CloseClientEnd(r.conn)]
                /\ client' = [client EXCEPT ![c].pc = "connect"]
        /\ UNCHANGED <<regvars, server, cachevars>>

\* client.write(command, *args, **kwargs): one send on self.connection, which
\* must not be None; the exception of a failed send leaves write().
ClientWrite(c, request) ==
    LET cl == Start(client[c], "write", request)
        k  == cl.connection
    IN  /\ client[c].pc = "idle" /\ OpsStarted < MaxOps
        /\ IF k = 0
           THEN /\ client' = [client EXCEPT ![c] = Done(cl, "raise", PyExc("AssertionError", << >>))]
                /\ UNCHANGED conns
           ELSE IF conns[k].c = "closed"
           THEN /\ client' = [client EXCEPT ![c] = Done(cl, "raise", PyExc("OSError", << >>))]
                /\ UNCHANGED conns
           ELSE LET s == ClientSend(conns[k], request) IN
                /\ conns' = [conns EXCEPT ![k] = s.conn]
                /\ client' = [client EXCEPT ![c] =
                        IF s.r = "ok" THEN Done(cl, "return", PyNone)
                        ELSE Done(cl, "raise", PyExc(s.r, << >>))]
        /\ UNCHANGED <<regvars, server, cachevars>>

\* client.read(): read_raw(blocking=True) asserts a connection and waits in recv().
ClientRead(c) ==
    LET cl == Start(client[c], "read", NoRequest)
        k  == cl.connection
    IN  /\ client[c].pc = "idle" /\ OpsStarted < MaxOps
        /\ client' = [client EXCEPT ![c] =
                IF k = 0 THEN Done(cl, "raise", PyExc("AssertionError", << >>))
                ELSE IF conns[k].c = "closed" THEN Done(cl, "raise", PyExc("OSError", << >>))
                ELSE [cl EXCEPT !.pc = "recv"]]
        /\ UNCHANGED <<regvars, server, conns, cachevars>>

\* recv() inside client.read() returns or raises; read() turns the reply into
\* a return value or an exception, and lets the exceptions of recv() through.
ReadBlocking(c) ==
    LET cl == client[c]
        k  == cl.connection
        r  == ClientRecv(conns[k])
        o  == read(r.data)
    IN  /\ cl.pc = "recv"
        /\ r.r # "block"
        /\ conns' = [conns EXCEPT ![k] = r.conn]
        /\ client' = [client EXCEPT ![c] =
                IF r.r # "data" THEN Done(cl, "raise", PyExc(r.r, << >>))
                ELSE IF r.data.t = "bytes" THEN Done(cl, "raise", PyExc("UnpicklingError", << >>))
                ELSE Done([cl EXCEPT !.out.status = r.data.status,
                                     !.out.invoked = r.data.invoked,
                                     !.out.answers = r.data.request], o.kind, o.val)]
        /\ UNCHANGED <<regvars, server, cachevars>>

\* The first n elements of a sequence removed.
Drop(seq, n) == SubSeq(seq, n + 1, Len(seq))

\* while self.connection.poll(): self.connection.recv() at the client end:
\* every response waiting is received and discarded; a pending condition
\* makes poll() true as well, and the recv() after it raises.
Drained(conn) ==
    LET r == RecvOn(<< >>, conn.cerr) IN
    [r |-> IF r.r = "block" THEN "ok" ELSE r.r,
     conn |-> [conn EXCEPT !.cerr = r.err, !.resp = << >>,
                           !.unanswered = Drop(@, IF Len(conn.resp) < Len(@)
                                                  THEN Len(conn.resp) ELSE Len(@))]]

\* client.drain()
ClientDrain(c) ==
    LET cl == Start(client[c], "drain", NoRequest)
        k  == cl.connection
    IN  /\ client[c].pc = "idle" /\ OpsStarted < MaxOps
        /\ IF k = 0
           THEN /\ client' = [client EXCEPT ![c] = Done(cl, "raise", PyExc("AssertionError", << >>))]
                /\ UNCHANGED conns
           ELSE IF conns[k].c = "closed"
           THEN /\ client' = [client EXCEPT ![c] = Done(cl, "raise", PyExc("OSError", << >>))]
                /\ UNCHANGED conns
           ELSE LET d == Drained(conns[k]) IN
                /\ conns' = [conns EXCEPT ![k] = d.conn]
                /\ client' = [client EXCEPT ![c] =
                        IF d.r = "ok" THEN Done(cl, "return", PyNone)
                        ELSE Done(cl, "raise", PyExc(d.r, << >>))]
        /\ UNCHANGED <<regvars, server, cachevars>>

\* The stubs Client(cls, prefix) gets from __load_class_methods: one per
\* public function of cls, and one per getter and setter of its properties.
\* command is the name its closure forwards, method the function whose
\* signature it binds.
RECURSIVE PropertyStubs(_, _)
PropertyStubs(props, prefix) ==
    IF props = << >> THEN << >>
    ELSE LET prop == Head(props)
             name == prefix \o prop.name
             one(func, method) ==
                 IF method = "None" THEN << >>
                 ELSE << [command |-> func \o name, method |-> method, class_binding |-> TRUE] >>
         IN  IF StartsWith(prop.name, str_dunder)
             THEN PropertyStubs(Tail(props), prefix)
             ELSE one(str_get_, prop.fget) \o one(str_set_, prop.fset)
                  \o PropertyStubs(Tail(props), prefix)

RECURSIVE FunctionStubs(_, _)
FunctionStubs(functions, prefix) ==
    IF functions = << >> THEN << >>
    ELSE LET fn == Head(functions) IN
         (IF StartsWith(fn.name, str_dunder) THEN << >>
          ELSE << [command |-> prefix \o fn.name, method |-> fn.method, class_binding |-> FALSE] >>)
         \o FunctionStubs(Tail(functions), prefix)

load_class_methods(cls, prefix) ==
    FunctionStubs(ClassFunctions(cls), prefix) \o PropertyStubs(ClassProperties(cls), prefix)

\* The stubs of Client(Dev, Port).
Stubs ==
    LET all == load_class_methods("Dev", str_empty) \o load_class_methods("Port", str_empty)
    IN  {all[i] : i \in 1..Len(all)}

\* The arguments the program passes to a stub (for a property accessor,
\* those left after the instance is dropped).
StubArgs ==
    {[args |-> << >>, kwargs |-> << >>],
     [args |-> <<PyInt(MaxArg)>>, kwargs |-> << >>],
     [args |-> << >>, kwargs |-> << [k |-> str_x, v |-> PyInt(MaxArg)] >>]}

\* The closure f(*args, **kwargs) of Client.__create_closure: signature.bind
\* raises TypeError on arguments that do not match; otherwise the attribute
\* `name` of the internal client is called. getattr finds ClientInternal's own
\* method when it has one of that name (of the names used here, read), and
\* only otherwise the forwarder to call(name, ...) that __getattr__ returns.
ClientStub(c, stub, args, kwargs) ==
    LET request == Request(stub.command, args, kwargs)
        started(op) == [Start(client[c], op, request) EXCEPT !.out.via = stub.command]
        k == client[c].connection
    IN  /\ client[c].pc = "idle" /\ OpsStarted < MaxOps
        /\ client' = [client EXCEPT ![c] =
                IF ~BindOK(Params(Closure("none", stub.command, stub.method)), args, kwargs)
                THEN Done(started("stub"), "raise", PyExc("TypeError", msg_bind))
                ELSE IF stub.command = str_read
                THEN \* ClientInternal.read(*args, **kwargs)
                     IF k = 0 THEN Done(started("read"), "raise", PyExc("AssertionError", << >>))
                     ELSE IF conns[k].c = "closed"
                     THEN Done(started("read"), "raise", PyExc("OSError", << >>))
                     ELSE [started("read") EXCEPT !.pc = "recv"]
                ELSE started("call")]
        /\ UNCHANGED <<regvars, server, conns, cachevars>>

----------------------------------------------------------------------------
(* The file cache of kochen.datautil: filecache and datacache.              *)
(*                                                                          *)
(* The cached functions a program declares:                                 *)
(*   @filecache(path=...)                  def f(x): return dt.datetime.now() *)
(*   @filecache(path=...)                  def f(x): return x**2            *)
(*   @filecache(path=..., overwrite=True)  def f(x): return x**2            *)
(*   @filecache(path=..., overwrite=True)  def f(): return 2                *)
(*   @filecache(path=..., recursive=True)  def g(x): return dt.datetime.now() *)
(* (f is declared again and again, as a program run again declares it).     *)
(* A file holds the table one backend wrote: an entry per (function name,   *)
(* key). A program keeps one backend per path, as the default paths do      *)
(* (".cache" for pickle, ".cache.json" for json).                           *)

str_f == <<102>>                                     \* "f"
str_g == <<103>>                                     \* "g"
\* "~~adhocdatastorage~~", the default of datacache's parameter name
str_adhoc ==
    <<126, 126, 97, 100, 104, 111, 99, 100, 97, 116, 97, 115, 116, 111, 114, 97, 103, 101, 126, 126>>
str_frozenset == <<102, 114, 111, 122, 101, 110, 115, 101, 116>>   \* "frozenset"
str__dt == <<95, 100, 116>>                          \* "_dt"

\* A datetime, as the number of microseconds since some instant.
PyDatetime(n) == [t |-> "datetime", v |-> <<n>>]

\* Number of cached calls and datacache calls a program makes.
MaxCacheOps == 3

\* The cache paths and the backend each is used with.
Paths == {"run.cache", "run.cache.json"}
BackendOf(path) == IF path = "run.cache.json" THEN "json" ELSE "pickle"

\* A declared function: f.__name__, its parameters, its body, and the
\* overwrite and recursive arguments of its decorator.
Declared(name, params, body, overwrite, recursive) ==
    [name |-> name, params |-> params, body |-> body, data |-> PyNone,
     overwrite |-> overwrite, recursive |-> recursive]
CachedFunctions ==
    {Declared(str_f, <<str_x>>, "now", FALSE, FALSE),
     Declared(str_f, <<str_x>>, "sq", FALSE, FALSE),
     Declared(str_f, <<str_x>>, "sq", TRUE, FALSE),
     Declared(str_f, << >>, "two", TRUE, FALSE),
     Declared(str_g, <<str_x>>, "now", FALSE, TRUE)}

\* The arguments cached functions are called with.
CacheArgs ==
    {[args |-> << >>, kwargs |-> << >>],
     [args |-> <<PyInt(1)>>, kwargs |-> << >>],
     [args |-> <<PyInt(2)>>, kwargs |-> << >>],
     [args |-> << >>, kwargs |-> << [k |-> str_x, v |-> PyInt(1)] >>]}

\* The data a program gives to datacache.
CacheData == {PyNone, PyInt(5), PyDatetime(0)}

\* f(*args, **kwargs) of a declared function at time now.
Evaluate(fn, args, kwargs, now) ==
    IF ~BindOK(fn.params, args, kwargs)
    THEN [kind |-> "raise", val |-> PyExc("TypeError", msg_bind)]
    ELSE CASE fn.body = "now"  -> [kind |-> "return", val |-> PyDatetime(now)]
           [] fn.body = "sq"   -> [kind |-> "return",
                                   val |-> PyInt(Arg1(args, kwargs).v[1] * Arg1(args, kwargs).v[1])]
           [] fn.body = "two"  -> [kind |-> "return", val |-> PyInt(2)]
           [] fn.body = "data" -> [kind |-> "return", val |-> fn.data]

\* key = (args, frozenset(kwargs.items()))
CacheKey(args, kwargs) == [args |-> args, kwargs |-> {kwargs[i] : i \in 1..Len(kwargs)}]

\* repr of an int or a str
Repr(value) == IF value.t = "str" THEN <<39>> \o value.v \o <<39>> ELSE StrOf(value)

\* repr of a tuple: "()", "(1,)", "(1, 2)"
RECURSIVE ReprSeq(_)
ReprSeq(values) ==
    IF values = << >> THEN << >>
    ELSE Repr(Head(values)) \o (IF Len(values) > 1 THEN <<44, 32>> ELSE << >>) \o ReprSeq(Tail(values))
ReprTuple(values) ==
    <<40>> \o ReprSeq(values) \o (IF Len(values) = 1 THEN <<44>> ELSE << >>) \o <<41>>

\* repr of frozenset(kwargs.items()): "frozenset()" or "frozenset({('x', 1)})",
\* the items in the set's iteration order.
ReprItemsOf(items) ==
    LET q == SetToSeq(items)
        one(i) == ReprTuple(<<PyStr(q[i].k), q[i].v>>) \o (IF i < Len(q) THEN <<44, 32>> ELSE << >>)
        RECURSIVE upto(_)
        upto(i) == IF i = 0 THEN << >> ELSE upto(i - 1) \o one(i)
    IN  upto(Len(q))
ReprFrozenset(items) ==
    IF items = {} THEN str_frozenset \o <<40, 41>>
    ELSE str_frozenset \o <<40, 123>> \o ReprItemsOf(items) \o <<125, 41>>

\* str(key) of the json backend
StrKey(key) ==
    <<40>> \o ReprTuple(key.args) \o <<44, 32>> \o ReprFrozenset(key.kwargs) \o <<41>>

\* The value of a decimal numeral.
RECURSIVE IntOf(_)
IntOf(digits) ==
    IF digits = << >> THEN 0 ELSE 10 * IntOf(SubSeq(digits, 1, Len(digits) - 1)) + (digits[Len(digits)] - 48)

\* DataEncoder: what json.dump writes for a value.
DataEncoder(value) ==
    CASE value.t = "datetime" -> [t |-> "object", v |-> <<[k |-> str__dt, v |-> Digits(value.v[1])]>>]
      [] value.t = "int"      -> [t |-> "number", v |-> value.v]
      [] value.t = "NoneType" -> [t |-> "null", v |-> << >>]
      [] value.t = "str"      -> [t |-> "string", v |-> value.v]

\* json.load with object_hook=data_decoder: the value read back.
data_decoder(json) ==
    CASE json.t = "object" /\ json.v[1].k = str__dt -> PyDatetime(IntOf(json.v[1].v))
      [] json.t = "number" -> PyInt(json.v[1])
      [] json.t = "null"   -> PyNone
      [] json.t = "string" -> PyStr(json.v)

\* A table: kind is "defaultdict" or "dict" ("None" when there is no table),
\* entries maps [fname, key] to the value of table[fname][key].
NoTable == [kind |-> "None", entries |-> << >>]
NoFile == [format |-> "none", kind |-> "None", entries |-> << >>]

\* fname in table
InTable(table, fname) == \E e \in DOMAIN table.entries : e.fname = fname

\* read_cache(path, backend) on the file at path: open or load fails on a
\* missing file and on a file of the other backend.
read_cache(file, backend) ==
    IF file.format # backend THEN NoTable
    ELSE IF backend = "pickle" THEN [kind |-> file.kind, entries |-> file.entries]
    ELSE [kind |-> "dict",
          entries |-> [e \in DOMAIN file.entries |-> data_decoder(file.entries[e])]]

\* write_cache(path, backend, table): the file afterwards.
write_cache(backend, table) ==
    IF backend = "pickle"
    THEN [format |-> "pickle", kind |-> table.kind, entries |-> table.entries]
    ELSE [format |-> "json", kind |-> "dict",
          entries |-> [e \in DOMAIN table.entries |-> DataEncoder(table.entries[e])]]

\* table[fname][key] = result
Put(table, slot, result) ==
    [kind |-> table.kind,
     entries |-> [e \in DOMAIN table.entries \cup {slot} |->
                     IF e = slot THEN result ELSE table.entries[e]]]

\* A slot per function name, whatever the arguments.
Slot_by_name(backend, fname, args, kwargs) ==
    [fname |-> fname,
     key |-> IF backend = "json" THEN StrKey(CacheKey(<< >>, << >>)) ELSE CacheKey(<< >>, << >>)]

\* The slot of the table a call of fname uses under a backend.
Slot(backend, fname, args, kwargs) ==
    [fname |-> fname,
     key |-> IF backend = "json" THEN StrKey(CacheKey(args, kwargs)) ELSE CacheKey(args, kwargs)]

\* filecache.wrapper.cacher(*args, **kwargs) of the decorated function fn on
\* the file at its path:
\*   kind, val   the value returned or the exception raised
\*   file        the file afterwards
\*   evaluated   whether f was called
cacher(fn, args, kwargs, file, backend, now) ==
    LET slot  == Slot(backend, fn.name, args, kwargs)
        table == read_cache(file, backend)
    IN  IF table.kind # "None" /\ ~fn.overwrite /\ slot \in DOMAIN table.entries
        THEN [kind |-> "return", val |-> table.entries[slot], file |-> file, evaluated |-> FALSE]
        ELSE LET r == Evaluate(fn, args, kwargs, now) IN
             IF r.kind = "raise"
             THEN [kind |-> "raise", val |-> r.val, file |-> file, evaluated |-> TRUE]
             ELSE LET again == IF fn.recursive THEN read_cache(file, backend) ELSE table
                      t     == IF again.kind = "None"
                               THEN [kind |-> "defaultdict", entries |-> << >>] ELSE again
                  IN  IF t.kind = "dict" /\ ~InTable(t, fn.name)
                      \* table[fname] of a plain dict without the key fname
                      THEN [kind |-> "raise", val |-> PyExc("KeyError", fn.name),
                            file |-> file, evaluated |-> TRUE]
                      ELSE [kind |-> "return", val |-> r.val,
                            file |-> write_cache(backend, Put(t, slot, r.val)), evaluated |-> TRUE]

\* The function datacache declares and decorates: def f(): return data. The
\* assignment f.__name__ = name names the decorated function; cacher reads the
\* __name__ of the function it wraps.
DataFunction(data) == [Declared(str_f, << >>, "data", data # PyNone, FALSE) EXCEPT !.data = data]

\* datacache(data, name, path, backend) on the file at path.
datacache(data, name, file, backend, now) ==
    LET f == [name |-> name, wrapped |-> DataFunction(data)]
    IN  cacher(f.wrapped, << >>, << >>, file, backend, now)

\* What has been stored so far at a path: per (function name, args, kwargs) the
\* value of the last evaluation that was stored.
Call(fname, args, kwargs) == [fname |-> fname, args |-> args, kwargs |-> kwargs]

StoredAfter(stored, call, r) ==
    IF r.kind = "return" /\ r.evaluated
    THEN [c \in DOMAIN stored \cup {call} |-> IF c = call THEN r.val ELSE stored[c]]
    ELSE stored

InitCache ==
    /\ files = [p \in Paths |-> NoFile]
    /\ clock = 1
    /\ cached = [op |-> "init", fn |-> Declared(str_empty, << >>, "none", FALSE, FALSE), args |-> << >>,
                 kwargs |-> << >>, path |-> "none",
                 kind |-> "none", val |-> PyNone, evaluated |-> FALSE,
                 before |-> [p \in Paths |-> NoFile],
                 stored |-> [p \in Paths |-> << >>],
                 data |-> [p \in Paths |-> PyNone],
                 n |-> 0]

\* A call fn(*args, **kwargs) of a function decorated with
\* @filecache(path=path, backend=BackendOf(path), ...).
CachedCall(fn, a, path) ==
    LET r == cacher(fn, a.args, a.kwargs, files[path], BackendOf(path), clock)
    IN  /\ cached.n < MaxCacheOps
        /\ files' = [files EXCEPT ![path] = r.file]
        /\ clock' = IF r.evaluated THEN clock + 1 ELSE clock
        /\ cached' = [op |-> "call", fn |-> fn, args |-> a.args, kwargs |-> a.kwargs,
                      path |-> path,
                      kind |-> r.kind, val |-> r.val, evaluated |-> r.evaluated,
                      before |-> files,
                      stored |-> [cached.stored EXCEPT ![path] =
                                     StoredAfter(@, Call(fn.name, a.args, a.kwargs), r)],
                      data |-> cached.data,
                      n |-> cached.n + 1]
        /\ UNCHANGED <<regvars, netvars>>

\* datacache(data, path=path, backend=BackendOf(path))
DataCache(data, path) ==
    LET r == datacache(data, str_adhoc, files[path], BackendOf(path), clock)
    IN  /\ cached.n < MaxCacheOps
        /\ files' = [files EXCEPT ![path] = r.file]
        /\ clock' = IF r.evaluated THEN clock + 1 ELSE clock
        /\ cached' = [op |-> "datacache", fn |-> DataFunction(data), args |-> << >>, kwargs |-> << >>,
                      path |-> path,
                      kind |-> r.kind, val |-> r.val, evaluated |-> r.evaluated,
                      before |-> files,
                      stored |-> [cached.stored EXCEPT ![path] =
                                     StoredAfter(@, Call(str_f, << >>, << >>), r)],
                      data |-> IF data # PyNone /\ r.kind = "return"
                               THEN [cached.data EXCEPT ![path] = data] ELSE cached.data,
                      n |-> cached.n + 1]
        /\ UNCHANGED <<regvars, netvars>>

----------------------------------------------------------------------------
(* The server and its clients.                                              *)

InitTable ==
    /\ registered_calls = << >>
    /\ registered_props = {}
    /\ _instances = {}
    /\ attr = [i \in {"dev1", "dev2"} |-> IF i = "dev1" THEN 1 ELSE 2]
    /\ api = [op |-> "init", target |-> NoCall, name |-> None, result |-> "None",
              command |-> None, args |-> << >>, kwargs |-> << >>,
              status |-> 0, val |-> PyNone, invoked |-> NoCall,
              calls |-> << >>, props |-> {}, insts |-> {}, vals |-> << >>, n |-> 0, c |-> 0,
              fresh |-> "none"]
    /\ first_reg = << >>

\* The secrets the server and the clients are constructed with: the second
\* client always has the server's.
Init ==
    /\ InitTable
    /\ server \in {ServerInit(s) : s \in {None, str_abc}}
    /\ conns = << >>
    /\ client \in {[c \in Clients |-> ClientInit(IF c = 1 THEN s ELSE server.secret)] :
                      s \in {None, str_abc, str_xyz}}
    /\ InitCache

Next ==
    \/ \E f \in Functions : Register(f)
    \/ Run
    \/ Listen
    \/ Accept
    \/ Authenticate
    \/ Serve
    \/ ListenerClose
    \/ \E c \in Clients : ClientConnect(c)
    \/ \E c \in Clients, request \in CallRequests : ClientCall(c, request)
    \/ \E c \in Clients, to_server \in BOOLEAN : ClientClose(c, to_server)
    \/ \E c \in Clients : Connect(c)
    \/ \E c \in Clients : Handshake(c)
    \/ \E c \in Clients : Write(c)
    \/ \E c \in Clients : Read(c)

Spec == Init /\ [][Next]_vars

----------------------------------------------------------------------------
(* One client of a server constructed as Server(dev1, sq, Bo, tr), using    *)
(* write() and read() next to call(), and the stubs of Client(Dev, Port).   *)

\* The functions given to the constructor after the instance.
ServedFunctions == <<"square", "boom", "trap">>

\* The loop of Server.__init__ over the functions among its arguments.
RECURSIVE RegisterAll(_, _)
RegisterAll(calls, fs) ==
    IF fs = << >> THEN calls
    ELSE RegisterAll(register(calls, PlainFunction(Head(fs)), None).calls, Tail(fs))

\* The client whose program runs.
ServedClients == {1}

\* Requests its program makes with call() and write().
ServeRequests ==
    {Request(str_sq, <<PyInt(MaxArg)>>, << >>),
     Request(str_Bo, << >>, << >>),
     Request(str_tr, << >>, << >>),
     Request(str_help, << >>, << >>),
     Request(str_help, <<PyStr(str_sq)>>, << >>),
     Request(str_help, <<PyStr(str_zz)>>, << >>)}

InitServe ==
    LET r == RegisterEntries(<< >>, {}, extract_methods("Dev", str_empty), "dev1") IN
    /\ registered_calls = RegisterAll(r.calls, ServedFunctions)
    /\ registered_props = r.props
    /\ _instances = {"dev1"}
    /\ attr = [i \in {"dev1", "dev2"} |-> IF i = "dev1" THEN 1 ELSE 2]
    /\ api = [op |-> "init", target |-> NoCall, name |-> None, result |-> "None",
              command |-> None, args |-> << >>, kwargs |-> << >>,
              status |-> 0, val |-> PyNone, invoked |-> NoCall,
              calls |-> << >>, props |-> {}, insts |-> {}, vals |-> << >>, n |-> 0, c |-> 0,
              fresh |-> "none"]
    /\ first_reg = << >>
    /\ server = ServerInit(None)
    /\ conns = << >>
    /\ client = [c \in Clients |-> ClientInit(None)]
    /\ InitCache

NextServe ==
    \/ Run
    \/ Listen
    \/ Accept
    \/ Serve
    \/ ListenerClose
    \/ \E c \in ServedClients : ClientConnect(c)
    \/ \E c \in ServedClients, request \in ServeRequests : ClientCall(c, request)
    \/ \E c \in ServedClients, request \in ServeRequests : ClientWrite(c, request)
    \/ \E c \in ServedClients : ClientRead(c)
    \/ \E c \in ServedClients : ClientClose(c, FALSE)
    \/ \E c \in ServedClients, stub \in Stubs, a \in StubArgs : ClientStub(c, stub, a.args, a.kwargs)
    \/ \E c \in ServedClients : Connect(c)
    \/ \E c \in ServedClients : Write(c)
    \/ \E c \in ServedClients : Read(c)
    \/ \E c \in ServedClients : ReadBlocking(c)

SpecServe == InitServe /\ [][NextServe]_vars

----------------------------------------------------------------------------
(* One client of the same server that mixes call() with write(), read() and *)
(* drain(), and also gives a command that is no string.                     *)

\* Requests its program makes with call() and write().
RawRequests ==
    {Request(str_sq, <<PyInt(MaxArg)>>, << >>),
     Request(str_Bo, << >>, << >>),
     Request(str_help, << >>, << >>),
     Request(int_5, << >>, << >>)}

NextRaw ==
    \/ Run
    \/ Listen
    \/ Accept
    \/ Serve
    \/ ListenerClose
    \/ \E c \in ServedClients : ClientConnect(c)
    \/ \E c \in ServedClients, request \in RawRequests : ClientCall(c, request)
    \/ \E c \in ServedClients, request \in RawRequests : ClientWrite(c, request)
    \/ \E c \in ServedClients : ClientRead(c)
    \/ \E c \in ServedClients : ClientDrain(c)
    \/ \E c \in ServedClients : ClientClose(c, FALSE)
    \/ \E c \in ServedClients : Connect(c)
    \/ \E c \in ServedClients : Write(c)
    \/ \E c \in ServedClients : Read(c)
    \/ \E c \in ServedClients : ReadBlocking(c)

SpecRaw == InitServe /\ [][NextRaw]_vars

----------------------------------------------------------------------------
(* A program that uses the file cache.                                      *)

InitFiles ==
    /\ InitTable
    /\ server = ServerInit(None)
    /\ conns = << >>
    /\ client = [c \in Clients |-> ClientInit(None)]
    /\ InitCache

NextCache ==
    \/ \E fn \in CachedFunctions, a \in CacheArgs, path \in Paths : CachedCall(fn, a, path)
    \/ \E data \in CacheData, path \in Paths : DataCache(data, path)

SpecCache == InitFiles /\ [][NextCache]_vars

----------------------------------------------------------------------------
(* Properties of the file cache, checked under SpecCache.                   *)

\* The step is a call of a cached function declared with overwrite=False.
IsCachedCall(before, after) ==
    /\ after.n = before.n + 1
    /\ after.op = "call"
    /\ ~after.fn.overwrite

\* The call a history record is about.
CallOf(h) == Call(h.fn.name, h.args, h.kwargs)

\* Some call of the function named fname has been stored.
HasStored(stored, fname) == \E c \in DOMAIN stored : c.fname = fname

\* What a file holds for a call, as its backend reads it back.
Retrieve(file, backend, c) ==
    read_cache(file, backend).entries[Slot(backend, c.fname, c.args, c.kwargs)]

\* Every call stored before the step is still retrievable from the file.
Retained(stored, file, backend) ==
    \A c \in DOMAIN stored :
       /\ Slot(backend, c.fname, c.args, c.kwargs) \in DOMAIN read_cache(file, backend).entries
       /\ Retrieve(file, backend, c) = stored[c]

\* C22: a call, with overwrite=False, of a function named n with arguments a
\* that have been evaluated and stored at the path returns the stored value
\* without evaluating the function (also when the function was declared
\* again under the name n) and leaves the file as it is; a call with other
\* arguments is evaluated, its result is returned and stored, and the values
\* stored before stay retrievable.
C22_MemoizedPerNameAndArguments ==
    [][IsCachedCall(cached, cached') =>
          LET h       == cached'
              backend == BackendOf(h.path)
              stored  == cached.stored[h.path]
          IN  /\ CallOf(h) \in DOMAIN stored =>
                    /\ h.kind = "return" /\ h.val = stored[CallOf(h)]
                    /\ ~h.evaluated /\ clock' = clock
                    /\ files' = files
              /\ (/\ CallOf(h) \notin DOMAIN stored
                  /\ HasStored(stored, h.fn.name)
                  /\ BindOK(h.fn.params, h.args, h.kwargs)) =>
                    /\ h.evaluated /\ clock' = clock + 1
                    /\ h.kind = "return"
                    /\ h.val = Evaluate(h.fn, h.args, h.kwargs, clock).val
                    /\ Retained(h.stored[h.path], files'[h.path], backend)
                    /\ DOMAIN h.stored[h.path] = DOMAIN stored \cup {CallOf(h)}
                    /\ \A c \in DOMAIN stored : h.stored[h.path][c] = stored[c]]_vars

\* f(x), declared again with another body, was served the datetime the first
\* f stored for the same argument, at a json path that also holds f's value
\* for another argument.
C22_Witness ==
    /\ cached.op = "call" /\ cached.fn.body = "sq" /\ ~cached.fn.overwrite
    /\ BackendOf(cached.path) = "json"
    /\ cached.kind = "return" /\ ~cached.evaluated
    /\ cached.val.t = "datetime"
    /\ \E c \in DOMAIN cached.stored[cached.path] :
          c.fname = str_f /\ c.args # cached.args /\ c.args # << >>

\* C23: when a cached function is called for the first time on a path that
\* holds entries of functions of other names, under either backend, it is
\* evaluated, its result is returned and stored, and the entries the path
\* held stay retrievable.
C23_DifferentNamesIsolated ==
    [][(/\ IsCachedCall(cached, cached')
        /\ ~HasStored(cached.stored[cached'.path], cached'.fn.name)
        /\ cached.stored[cached'.path] # << >>
        /\ BindOK(cached'.fn.params, cached'.args, cached'.kwargs)) =>
          LET h == cached' IN
          /\ h.evaluated
          /\ h.kind = "return"
          /\ h.val = Evaluate(h.fn, h.args, h.kwargs, clock).val
          /\ CallOf(h) \in DOMAIN h.stored[h.path]
          /\ Retained(h.stored[h.path], files'[h.path], BackendOf(h.path))]_vars

\* C24: with the default backend, datacache(path=p) returns None when the
\* path holds nothing; once datacache(d, path=p) has stored d, it returns the
\* d of the last such call; datacache(d, path=p) itself returns d.
C24_DataCacheStoreRetrieve ==
    (cached.op = "datacache" /\ BackendOf(cached.path) = "pickle") =>
       /\ cached.kind = "return"
       /\ (cached.fn.data = PyNone /\ cached.before[cached.path] = NoFile) => cached.val = PyNone
       /\ (cached.fn.data = PyNone /\ cached.data[cached.path] # PyNone) =>
             cached.val = cached.data[cached.path]
       /\ cached.fn.data # PyNone => cached.val = cached.fn.data

----------------------------------------------------------------------------
(* The registration API, called by the program that owns the server, and a  *)
(* remote call served over a healthy connection.                            *)

\* Names and prefixes the owning program passes to register().
RegNames == {None, str_SQ}
Prefixes == {None, str_a_}
\* Names it passes to unregister().
UnregNames == {str_sq, str_SQ, str_m, str_zz, str_help, str_close}
\* Requests clients send to the table under test.
IntArgs == {<<PyInt(n)>> : n \in 1..MaxArg}
Requests ==
    {Request(c, a, << >>) : c \in {str_sq, str_SQ, str_m, str_a_ \o str_m, str_set_ \o str_q}, a \in IntArgs}
    \cup {Request(c, << >>, << >>) :
            c \in {str_sq, str_Bo, str_no, str_Zz, str_get_ \o str_p, str_get_ \o str_q,
                   str_del_ \o str_q, str_a_ \o str_get_ \o str_p, str_get_ \o str_a_ \o str_p}}
    \cup {Request(str_sq, <<PyStr(str_x)>>, << >>),
          Request(str_sq, << >>, << [k |-> str_x, v |-> PyInt(MaxArg)] >>),
          Request(str_no, << >>, << [k |-> str_x, v |-> PyInt(MaxArg)] >>)}

\* Number of remote calls clients make.
MaxRemoteCalls == 2

\* Number of register/unregister calls the owning program makes.
MaxApiCalls == 3

\* The instance, function or name an API call was made on.
OnInstance(instance) == [self |-> instance, name |-> None, code |-> "instance"]
OnName(name)         == [self |-> "none", name |-> name, code |-> "str"]

ApiRecord(op, target, name, result) ==
    [op |-> op, target |-> target, name |-> name, result |-> result,
     command |-> None, args |-> << >>, kwargs |-> << >>,
     status |-> 0, val |-> PyNone, invoked |-> NoCall,
     calls |-> registered_calls, props |-> registered_props, insts |-> _instances,
     vals |-> attr, n |-> api.n + 1, c |-> api.c, fresh |-> "none"]

\* History: the callable of the first successful registration of each name.
Remember(hist, calls) ==
    LET names == {calls[i].name : i \in 1..Len(calls)} IN
    [n \in names |-> IF n \in DOMAIN hist THEN hist[n] ELSE Get(calls, n)]

InitRegistry ==
    /\ InitTable
    /\ server = ServerInit(None)
    /\ conns = << >>
    /\ client = [c \in Clients |-> ClientInit(None)]
    /\ InitCache

\* Server.register(f, name) on a plain function.
RegisterFunction(f, name) ==
    LET r == register(registered_calls, PlainFunction(f), name) IN
    /\ api.n < MaxApiCalls
    /\ registered_calls' = r.calls
    /\ api' = ApiRecord("register", PlainFunction(f), name, r.result)
    /\ first_reg' = Remember(first_reg, r.calls)
    /\ UNCHANGED <<registered_props, _instances, attr, netvars, cachevars>>

\* Server.register(instance, prefix) without the test for a registered instance.
RegisterInstance_again(instance, name) ==
    /\ api.n < MaxApiCalls
    /\ IF ClassOf(instance) \in {"str", "bytes", "int", "float", "bool"}
       THEN /\ api' = ApiRecord("register", OnInstance(instance), name, "ValueError")
            /\ UNCHANGED <<registered_calls, registered_props, _instances, attr, first_reg, netvars, cachevars>>
       ELSE LET prefix == IF name = None THEN str_empty ELSE name
                r == RegisterEntries(registered_calls, registered_props,
                                     extract_methods(ClassOf(instance), prefix), instance)
            IN  /\ registered_calls' = r.calls
                /\ registered_props' = r.props
                /\ _instances' = _instances \cup {instance}
                /\ api' = ApiRecord("register", OnInstance(instance), name, "True")
                /\ first_reg' = Remember(first_reg, r.calls)
                /\ UNCHANGED <<attr, netvars, cachevars>>

\* Server.register(instance, prefix)
RegisterInstance(instance, name) ==
    /\ api.n < MaxApiCalls
    /\ IF instance \in _instances \/ ClassOf(instance) \in {"str", "bytes", "int", "float", "bool"}
       THEN /\ api' = ApiRecord("register", OnInstance(instance), name, "ValueError")
            /\ UNCHANGED <<registered_calls, registered_props, _instances, attr, first_reg, netvars, cachevars>>
       ELSE LET prefix == IF name = None THEN str_empty ELSE name
                r == RegisterEntries(registered_calls, registered_props,
                                     extract_methods(ClassOf(instance), prefix), instance)
            IN  /\ registered_calls' = r.calls
                /\ registered_props' = r.props
                /\ _instances' = _instances \cup {instance}
                /\ api' = [ApiRecord("register", OnInstance(instance), name, "True") EXCEPT
                              !.fresh = IF registered_calls = << >> /\ name = None
                                        THEN instance ELSE "none"]
                /\ first_reg' = Remember(first_reg, r.calls)
                /\ UNCHANGED <<attr, netvars, cachevars>>

\* Names no longer in the table are free again.
Forget(hist, calls) ==
    [n \in {m \in DOMAIN hist : has_registered(calls, m)} |-> hist[n]]

\* Server.unregister(name)
UnregisterName(name) ==
    LET r == unregister(registered_calls, FALSE, name) IN
    /\ api.n < MaxApiCalls
    /\ registered_calls' = r.calls
    /\ api' = ApiRecord("unregister", OnName(name), None, r.result)
    /\ first_reg' = Forget(first_reg, r.calls)
    /\ UNCHANGED <<registered_props, _instances, attr, netvars, cachevars>>

\* Server.unregister(f) on a plain function
UnregisterFunction(f) ==
    LET r == unregister(registered_calls, TRUE, FuncName(f)) IN
    /\ api.n < MaxApiCalls
    /\ registered_calls' = r.calls
    /\ api' = ApiRecord("unregister", PlainFunction(f), None, r.result)
    /\ first_reg' = Forget(first_reg, r.calls)
    /\ UNCHANGED <<registered_props, _instances, attr, netvars, cachevars>>

\* Server.unregister(instance)
UnregisterInstance(instance) ==
    /\ api.n < MaxApiCalls
    /\ IF instance \notin _instances
       THEN /\ api' = ApiRecord("unregister", OnInstance(instance), None, "ValueError")
            /\ UNCHANGED <<registered_calls, registered_props, _instances, attr, first_reg, netvars, cachevars>>
       ELSE LET r == UnregisterEntries(registered_calls, registered_props,
                                       extract_methods(ClassOf(instance), str_empty))
            IN  /\ registered_calls' = r.calls
                /\ registered_props' = r.props
                /\ _instances' = _instances \ {instance}
                /\ api' = ApiRecord("unregister", OnInstance(instance), None, "True")
                /\ first_reg' = Forget(first_reg, r.calls)
                /\ UNCHANGED <<attr, netvars, cachevars>>

\* client.call(command, *args, **kwargs) over a connection the server is
\* serving: the request is received by _r, handled, and the response read.
RemoteCall(request) ==
    LET h == HandleMessage(registered_calls, registered_props, attr, request)
        out == read([status |-> h.status, data |-> h.data])
    IN  /\ api.c < MaxRemoteCalls
        /\ h.act = "send"
        /\ attr' = h.vals
        /\ api' = [ApiRecord("call", NoCall, None, out.kind) EXCEPT
                      !.command = request.command, !.args = request.args,
                      !.kwargs = request.kwargs,
                      !.status = h.status, !.val = out.val, !.invoked = h.invoked,
                      !.n = api.n, !.c = api.c + 1, !.fresh = api.fresh]
        /\ UNCHANGED <<registered_calls, registered_props, _instances, first_reg, netvars, cachevars>>

NextRegistry ==
    \/ \E f \in Functions, name \in RegNames : RegisterFunction(f, name)
    \/ \E i \in Instances, name \in Prefixes : RegisterInstance(i, name)
    \/ \E name \in UnregNames : UnregisterName(name)
    \/ \E f \in Functions : UnregisterFunction(f)
    \/ \E i \in Instances : UnregisterInstance(i)
    \/ \E request \in Requests : RemoteCall(request)

SpecReg == InitRegistry /\ [][NextRegistry]_vars

----------------------------------------------------------------------------
(* The registration API used with the names of the auxiliary commands.      *)

str_Close == <<67, 108, 111, 115, 101>>              \* "Close"

ReservedFunctions == {"square", "close"}
ReservedInstances == {"dev1", "valve"}
ReservedRegNames == {None, str_help, str_Close}
ReservedUnregNames == {str_sq, str_help, str_close}
ReservedRequests ==
    {Request(str_help, << >>, << >>), Request(str_help, <<PyStr(str_close)>>, << >>),
     Request(str_sq, <<PyInt(MaxArg)>>, << >>)}

NextReserved ==
    \/ \E f \in ReservedFunctions, name \in ReservedRegNames : RegisterFunction(f, name)
    \/ \E i \in ReservedInstances, name \in Prefixes : RegisterInstance(i, name)
    \/ \E name \in ReservedUnregNames : UnregisterName(name)
    \/ \E f \in ReservedFunctions : UnregisterFunction(f)
    \/ \E i \in ReservedInstances : UnregisterInstance(i)
    \/ \E request \in ReservedRequests : RemoteCall(request)

SpecReserved == InitRegistry /\ [][NextReserved]_vars

\* C25: after any sequence of register and unregister calls, neither "help"
\* nor "close" is a key of the dispatch table.
C25_NoReservedName ==
    \A i \in 1..Len(registered_calls) : registered_calls[i].name \notin auxiliary_calls

----------------------------------------------------------------------------
(* Properties of the dispatch table, checked under SpecReg.                 *)

\* The name a register(f, name) call on a plain function resolves to.
RegisteredAs(target, name) == Lower(IF name = None THEN target.name ELSE name)

IsDuplicateRegister ==
    /\ api.op = "register"
    /\ api.target.code \in Functions
    /\ ~(api.name = None /\ api.target.name = str_lambda)
    /\ has_registered(api.calls, RegisteredAs(api.target, api.name))

\* C4: a register whose lower-cased name is already in the dispatch table
\* returns False and leaves the table unchanged; every name stays bound to the
\* callable of its first successful registration, and a remote call of the
\* name invokes that callable.
C4_DuplicateRegistrationRejected ==
    /\ IsDuplicateRegister => api.result = "False" /\ registered_calls = api.calls
    /\ \A n \in DOMAIN first_reg : Get(registered_calls, n) = first_reg[n]
    /\ (api.op = "call" /\ Lower(api.command) \in DOMAIN first_reg)
          => api.invoked = first_reg[Lower(api.command)]

\* A duplicate registration of another callable was refused, the name being
\* bound to the first.
C4_Witness ==
    /\ IsDuplicateRegister
    /\ api.result = "False"
    /\ Get(registered_calls, RegisteredAs(api.target, api.name)) # api.target

\* The commands an instance of cls is expected to expose without a prefix: one
\* per public method, and get_/set_/del_ for the accessors a property has.
PublicFunctions(cls) ==
    {ClassFunctions(cls)[i] : i \in {j \in 1..Len(ClassFunctions(cls)) :
                                        ~StartsWith(ClassFunctions(cls)[j].name, str_dunder)}}
PropertiesOf(cls) == {ClassProperties(cls)[i] : i \in 1..Len(ClassProperties(cls))}
ExpectedEntries(cls, instance) ==
    {[name |-> m.name, f |-> Closure(instance, m.name, m.method)] : m \in PublicFunctions(cls)}
    \cup {[name |-> str_get_ \o p.name, f |-> Closure(instance, p.name, p.fget)] :
             p \in {x \in PropertiesOf(cls) : x.fget # "None"}}
    \cup {[name |-> str_set_ \o p.name, f |-> Closure(instance, p.name, p.fset)] :
             p \in {x \in PropertiesOf(cls) : x.fset # "None"}}
    \cup {[name |-> str_del_ \o p.name, f |-> Closure(instance, p.name, p.fdel)] :
             p \in {x \in PropertiesOf(cls) : x.fdel # "None"}}

\* Reading instance.<prop> locally: the property's getter run on the instance.
LocalRead(instance, prop, vals) ==
    Apply(Closure(instance, prop.name, prop.fget), << >>, << >>, vals).val

\* instance.<m>(x) run locally.
LocalCall(instance, m, args, vals) ==
    Apply(Closure(instance, m.name, m.method), args, << >>, vals)

RegisteredOnEmptyTable ==
    /\ api.op = "register" /\ api.target.code = "instance" /\ api.result = "True"
    /\ api.calls = << >> /\ api.name = None

\* C9: after Server.register(instance) on an empty table the table holds
\* exactly one entry per public method m under name m, get_p/set_p/del_p for
\* exactly the accessors property p has, and nothing for dunder members; a
\* remote call of get_p returns what reading instance.p returns locally, and a
\* remote call of m(x) runs m on the registered instance.
C9_InstanceProxy ==
    /\ RegisteredOnEmptyTable =>
          LET cls == ClassOf(api.target.self) IN
          /\ {registered_calls[i] : i \in 1..Len(registered_calls)}
                = ExpectedEntries(cls, api.target.self)
          /\ Len(registered_calls) = Cardinality(ExpectedEntries(cls, api.target.self))
          /\ \A i \in 1..Len(registered_calls) : ~StartsWith(registered_calls[i].name, str_dunder)
    /\ (api.op = "call" /\ api.fresh # "none") =>
          LET cls == ClassOf(api.fresh) IN
          /\ \A p \in PropertiesOf(cls) :
                (api.command = str_get_ \o p.name /\ p.fget # "None"
                    /\ api.args = << >> /\ api.kwargs = << >>)
                => /\ api.result = "return"
                   /\ api.val = LocalRead(api.fresh, p, api.vals)
          /\ \A m \in PublicFunctions(cls) :
                api.command = m.name
                => /\ api.invoked = Closure(api.fresh, m.name, m.method)
                   /\ LET r == LocalCall(api.fresh, m, api.args, api.vals) IN
                      /\ api.kwargs = << >> => api.val = r.val
                      /\ api.kwargs = << >> => attr = r.vals

\* A getter was called remotely on an instance registered on an empty table,
\* after a remote set changed the attribute it reads.
C9_Witness ==
    /\ api.op = "call" /\ api.fresh = "dev2"
    /\ api.command = str_get_ \o str_p
    /\ api.result = "return"
    /\ api.vals["dev2"] = 1

\* C10: Server.register(instance) on an instance that is registered raises
\* ValueError and leaves the dispatch table, the registered properties and
\* the registered instances unchanged.
C10_InstanceRegisteredOnce ==
    (api.op = "register" /\ api.target.code = "instance" /\ api.target.self \in api.insts)
    => /\ api.result = "ValueError"
       /\ registered_calls = api.calls
       /\ registered_props = api.props
       /\ _instances = api.insts

\* The same instance was registered a second time, with a prefix.
C10_Witness ==
    /\ api.op = "register" /\ api.target.code = "instance"
    /\ api.target.self \in api.insts
    /\ api.name = str_a_
    /\ api.result = "ValueError"

\* The register call api records is undone by the unregister call api'
\* records: same function (registered under its own name), the name it was
\* registered under, or the same instance.
UndoneBy(reg, unreg) ==
    /\ reg.op = "register" /\ reg.result = "True"
    /\ unreg.op = "unregister" /\ unreg.n = reg.n + 1
    /\ \/ reg.target.code \in Functions /\ reg.name = None /\ unreg.target = reg.target
       \/ /\ reg.target.code \in Functions
          /\ unreg.target = OnName(IF reg.name = None THEN reg.target.name ELSE reg.name)
       \/ reg.target.code = "instance" /\ unreg.target = reg.target

\* C13: a successful register(x, name) immediately followed by unregister of
\* that same function, name or instance succeeds and restores the dispatch
\* table, the registered properties and the registered instances to their
\* state before the register.
C13_UnregisterInverse ==
    [][UndoneBy(api, api') =>
          /\ api'.result = "True"
          /\ registered_calls' = api.calls
          /\ registered_props' = api.props
          /\ _instances' = api.insts]_vars

\* unregister(name) was called with a reserved name or a name not in the table.
IsRefusedUnregister ==
    /\ api.op = "unregister" /\ api.target.code = "str"
    /\ api.target.name \in auxiliary_calls \/ ~has_registered(api.calls, api.target.name)

\* C14: unregister("help"), unregister("close") and unregister of a name that
\* is not registered return False and leave the dispatch table unchanged; in
\* every state help and close are served.
C14_AuxiliaryProtected ==
    /\ IsRefusedUnregister =>
          /\ api.result = "False"
          /\ registered_calls = api.calls
          /\ registered_props = api.props
          /\ _instances = api.insts
    /\ auxiliary_calls = {str_help, str_close}
    /\ LET h == HandleMessage(registered_calls, registered_props, attr,
                              Request(str_help, << >>, << >>)) IN
       /\ h.act = "send" /\ h.status = CtrlMsg.INFO
       /\ h.data = PyStr(help_client(registered_calls, registered_props))
    /\ HandleMessage(registered_calls, registered_props, attr,
                     Request(str_close, << >>, << >>)).act = "close"

\* unregister("help") was refused on a table that holds commands.
C14_Witness ==
    /\ IsRefusedUnregister
    /\ api.target.name = str_help
    /\ api.result = "False"
    /\ registered_calls # << >>

\* The letter-case variants of a name.
Upper(s) == [i \in 1..Len(s) |-> IF s[i] >= 97 /\ s[i] <= 122 THEN s[i] - 32 ELSE s[i]]
Variants(n) ==
    {[i \in 1..Len(n) |-> IF i \in S THEN Upper(n)[i] ELSE Lower(n)[i]] : S \in SUBSET (1..Len(n))}

\* C15: a request whose command is any letter-case variant of a registered
\* name is dispatched to the callable registered under that name, whatever
\* the letter case it was registered in; no two names of the dispatch table
\* differ only in letter case.
C15_CaseInsensitive ==
    /\ \A i \in 1..Len(registered_calls) :
          \A v \in Variants(registered_calls[i].name) :
             HandleMessage(registered_calls, registered_props, attr,
                           Request(v, << >>, << >>)).invoked = registered_calls[i].f
    /\ \A i, j \in 1..Len(registered_calls) :
          Lower(registered_calls[i].name) = Lower(registered_calls[j].name) => i = j
    /\ (api.op = "register" /\ api.target.code \in Functions /\ api.result = "True") =>
          \A v \in Variants(IF api.name = None THEN api.target.name ELSE api.name) :
             HandleMessage(registered_calls, registered_props, attr,
                           Request(v, << >>, << >>)).invoked = api.target
    /\ (api.op = "call" /\ has_registered(registered_calls, Lower(api.command))) =>
          api.invoked = Get(registered_calls, Lower(api.command))

\* A function registered under the explicit name "SQ" was called as "sq".
C15_Witness ==
    /\ api.op = "call" /\ api.command = str_sq
    /\ api.invoked = PlainFunction("boom")
    /\ Get(registered_calls, str_sq) = PlainFunction("boom")

\* An instance is registered without a prefix while a command it exposes is
\* bound to another instance.
IsCollidingRegister ==
    /\ api.op = "register" /\ api.target.code = "instance" /\ api.name = None
    /\ api.target.self \notin api.insts
    /\ LET entries == extract_methods(ClassOf(api.target.self), str_empty) IN
       \E i \in 1..Len(entries) :
          /\ has_registered(api.calls, entries[i].command)
          /\ Get(api.calls, entries[i].command).self \in api.insts \ {api.target.self}

\* C20: registering, without a prefix, a second instance that exposes a
\* method name an already registered instance exposes is rejected: it does
\* not report success, the second instance is not recorded, and the name
\* stays bound to the first instance.
C20_CollisionRejected ==
    IsCollidingRegister =>
       /\ api.result # "True"
       /\ api.target.self \notin _instances
       /\ registered_calls = api.calls

\* Server.unregister(instance) was called on a registered instance.
IsInstanceUnregister ==
    /\ api.op = "unregister" /\ api.target.code = "instance"
    /\ api.target.self \in api.insts

\* C29: Server.unregister(instance) removes every entry that was created for
\* the instance, under whatever prefix, and no other entry: the entries bound
\* to plain functions and to other instances stay, in their order.
C29_UnregisterInstanceExact ==
    IsInstanceUnregister =>
       /\ api.result = "True"
       /\ registered_calls = SelectSeq(api.calls, LAMBDA e : e.f.self # api.target.self)
       /\ api.target.self \notin _instances

\* register was called on the anonymous function.
IsLambdaRegister == api.op = "register" /\ api.target = PlainFunction("lambda")

\* C21: registering an anonymous function without a name raises ValueError
\* and leaves the dispatch table, the registered properties and the
\* registered instances unchanged; registering it with an explicit name that
\* is free returns True and binds the function under the lower-cased name,
\* where requests reach it.
C21_AnonymousNeedsName ==
    /\ (IsLambdaRegister /\ api.name = None) =>
          /\ api.result = "ValueError"
          /\ registered_calls = api.calls
          /\ registered_props = api.props
          /\ _instances = api.insts
    /\ (IsLambdaRegister /\ api.name # None /\ ~has_registered(api.calls, Lower(api.name))) =>
          /\ api.result = "True"
          /\ registered_calls = Append(api.calls, [name |-> Lower(api.name), f |-> api.target])
          /\ HandleMessage(registered_calls, registered_props, attr,
                           Request(api.name, <<PyInt(MaxArg)>>, << >>)).invoked = api.target
          /\ ~has_registered(registered_calls, str_lambda)

\* The anonymous function was registered as "SQ" on a table that holds other
\* commands.
C21_Witness ==
    /\ IsLambdaRegister /\ api.name = str_SQ
    /\ api.result = "True"
    /\ api.calls # << >>
    /\ Get(registered_calls, str_sq) = PlainFunction("lambda")

----------------------------------------------------------------------------
(* Properties of the protocol, checked under Spec.                          *)

\* What calling the function registered under the request's command does
\* locally, on the request's arguments.
LocalResult(request) ==
    Apply(Get(registered_calls, Lower(request.command)), request.args, request.kwargs, attr)

\* The request's command is a key of the dispatch table.
IsRegistered(request) == has_registered(registered_calls, Lower(request.command))

\* Client c's call() has ended by reading a reply of the server.
CallAnswered(c) ==
    /\ client[c].pc = "idle"
    /\ client[c].out.op = "call"
    /\ client[c].out.status # 0

\* Client c's call() has ended, by a return or by an exception.
CallEnded(c) ==
    /\ client[c].pc = "idle"
    /\ client[c].out.op = "call"
    /\ client[c].out.kind # "none"

\* C1 (round trip): a call of a registered function that returns normally
\* when run locally on the same arguments, answered by the server, returns
\* exactly that value (None included), and the reply read had status OK.
C1_RoundTrip ==
    \A c \in Clients :
        LET out == client[c].out IN
        (CallAnswered(c) /\ IsRegistered(out.request)
                         /\ LocalResult(out.request).kind = "ret")
        => /\ out.kind = "return"
           /\ out.val = LocalResult(out.request).val
           /\ out.status = CtrlMsg.OK

\* A call of sq(MaxArg) returned MaxArg * MaxArg.
C1_Witness ==
    \E c \in Clients :
        /\ CallAnswered(c)
        /\ client[c].out.request = Request(str_sq, <<PyInt(MaxArg)>>, << >>)
        /\ client[c].out.kind = "return"
        /\ client[c].out.val = PyInt(MaxArg * MaxArg)

IsUnknown(request) ==
    /\ ~IsRegistered(request)
    /\ Lower(request.command) \notin auxiliary_calls

\* C3 as stated (unknown-command contract): a call of an unknown command is
\* answered with status ERROR, the client raises BadRequest with the reply's
\* text, the text contains the command name as the client sent it, and no
\* registered callable was run.
C3_UnknownCommand_AsSent ==
    \A c \in Clients :
        LET out == client[c].out IN
        (CallAnswered(c) /\ IsUnknown(out.request))
        => /\ out.status = CtrlMsg.ERROR
           /\ out.kind = "raise"
           /\ out.val.t = "BadRequest"
           /\ Contains(out.val.v, out.request.command)
           /\ out.invoked = NoCall

\* C3 (unknown-command contract, amended): a call of an unknown command is
\* answered with status ERROR, the client raises BadRequest with the reply's
\* text, the text contains the lower-cased command name, and no registered
\* callable was run.
C3_UnknownCommand ==
    \A c \in Clients :
        LET out == client[c].out IN
        (CallAnswered(c) /\ IsUnknown(out.request))
        => /\ out.status = CtrlMsg.ERROR
           /\ out.kind = "raise"
           /\ out.val.t = "BadRequest"
           /\ Contains(out.val.v, Lower(out.request.command))
           /\ out.invoked = NoCall

\* A call of Zz() raised BadRequest, with no function registered at all.
C3_Witness ==
    \E c \in Clients :
        /\ CallAnswered(c)
        /\ client[c].out.request = Request(str_Zz, << >>, << >>)
        /\ client[c].out.val.t = "BadRequest"

\* A reply to a close request, in flight or read.
CloseAnswered ==
    \/ \E k \in 1..Len(conns) : \E i \in 1..Len(conns[k].resp) :
          Lower(conns[k].resp[i].request.command) = str_close
    \/ \E c \in Clients : Lower(client[c].out.answers.command) = str_close

\* C5 (close semantics): once the server has received a close request on the
\* connection it serves, the serve loop of that connection is over, restart
\* is off, the connection is closed at the server's end, no reply to the close
\* was sent, the listener is closed as soon as the finally clause has run and
\* is never opened again; and an operation that tries to make a connection
\* after that does not get one: connect() returns False, call() is still
\* trying.
C5_CloseSemantics ==
    /\ server.closed_by # 0 =>
          /\ server.pc \in {"finally", "loop", "done"}
          /\ ~server.restart
          /\ conns[server.closed_by].s = "closed"
          /\ ~CloseAnswered
          /\ server.pc \in {"loop", "done"} => server.listener = "closed"
    /\ \A c \in Clients :
          LET cl == client[c] IN
          cl.out.down =>
             /\ is_closed(cl)
             /\ cl.pending = 0
             /\ (cl.out.op = "connect" /\ cl.pc = "idle")
                    => (cl.out.kind = "return" /\ cl.out.val = PyFalse)
             /\ cl.out.op = "call" => (cl.pc = "connect" /\ cl.out.kind = "none")

\* One client's close(server=True) has ended run(); a connect() made after
\* that returned False.
C5_Witness ==
    /\ server.pc = "done"
    /\ server.closed_by # 0
    /\ \E c \in Clients :
          /\ client[c].out.op = "connect"
          /\ client[c].out.down
          /\ client[c].pc = "idle"
          /\ client[c].out.val = PyFalse

\* C6 as stated (idempotent reconnection), its safety part: a call() of a
\* registered command that returns normally, made right after the client's
\* close(server=False) of its open connection to a server with the same
\* secret, does not end with an error: when it ends, it has returned the
\* command's result.
C6_ReconnectionWithoutError ==
    \A c \in Clients :
        LET cl == client[c] IN
        (CallEnded(c) /\ cl.reconnects /\ cl.secret = server.secret
                      /\ IsRegistered(cl.out.request)
                      /\ LocalResult(cl.out.request).kind = "ret")
        => /\ cl.out.kind = "return"
           /\ cl.out.val = LocalResult(cl.out.request).val

\* C7 as stated (call() never surfaces a transport fault): whenever a call()
\* to a server with the same secret ends, it has returned a result, or raised
\* the BadRequest of an ERROR reply or the error of an ERROR_FORWARDED reply.
C7_NoTransportFault ==
    \A c \in Clients :
        LET cl == client[c] IN
        (CallEnded(c) /\ cl.secret = server.secret /\ cl.out.kind = "raise")
        => cl.out.status \in {CtrlMsg.ERROR, CtrlMsg.ERROR_FORWARDED}

\* C8 as stated (secret mismatch): a client whose secret differs from the
\* server's never has an open connection, no message of it is handled by _r,
\* none of its operations raises, and its connect() returns False.
C8_SecretMismatch ==
    \A c \in Clients :
        LET cl == client[c] IN
        cl.secret # server.secret
        => /\ is_closed(cl)
           /\ c \notin server.served
           /\ cl.out.kind # "raise"
           /\ (cl.out.op = "connect" /\ cl.pc = "idle")
                  => (cl.out.kind = "return" /\ cl.out.val = PyFalse)


\* The requests the responses waiting at the client end answer, in order.
AnsweredBy(resp) == [i \in 1..Len(resp) |-> resp[i].request]

\* The requests in a queue that are no close request.
NotClose(req) == SelectSeq(req, LAMBDA m : Lower(m.command) # str_close)

IsPrefix(p, q) == Len(p) <= Len(q) /\ SubSeq(q, 1, Len(p)) = p

\* connect() is running in client c and takes its step.
ConnectStep(c) ==
    /\ client[c].pc = "connect" /\ client[c].out.op = "connect"
    /\ client'[c] # client[c]

\* connect() ends in client c at this step.
ConnectEnds(c) ==
    /\ client[c].out.op = "connect" /\ client[c].pc # "idle" /\ client'[c].pc = "idle"

\* C12: connect() on a client that holds an open connection returns True,
\* keeps that connection and makes no new one; otherwise it makes one attempt:
\* when the server refuses it returns False and the client stays unconnected,
\* on success it returns True and the client holds a new open connection.
\* connect() never raises.
C12_ConnectIdempotent ==
    [][\A c \in Clients :
          LET cl == client[c]
              after == client'[c]
          IN
          /\ ConnectStep(c) =>
                IF ~is_closed(cl)
                THEN /\ after.pc = "idle"
                     /\ after.out.kind = "return" /\ after.out.val = PyTrue
                     /\ after.connection = cl.connection
                     /\ conns' = conns
                ELSE IF server.listener # "open"
                THEN /\ after.pc = "idle"
                     /\ after.out.kind = "return" /\ after.out.val = PyFalse
                     /\ after.connection = cl.connection
                     /\ conns' = conns
                ELSE /\ Len(conns') = Len(conns) + 1
                     /\ SubSeq(conns', 1, Len(conns)) = conns
          /\ ConnectEnds(c) =>
                /\ after.out.kind = "return"
                /\ after.out.val \in {PyTrue, PyFalse}
                /\ after.out.val = PyTrue =>
                      /\ after.connection # 0
                      /\ conns'[after.connection].c = "open"
                      /\ conns'[after.connection].owner = c
                      /\ is_closed(cl) => after.connection # cl.connection
                /\ after.out.val = PyFalse =>
                      after.connection = 0 \/ conns'[after.connection].c = "closed"]_vars

\* The connections _r serves: accepted, and not closed at the server end.
Served(cs) == {k \in 1..Len(cs) : cs[k].s = "open"}

\* At most the connection run() handed to _r is served, and no request of a
\* connection waiting in the backlog has been received or answered.
OneAtATime(srv, cs) ==
    /\ Served(cs) \subseteq {srv.connection}
    /\ \A k \in 1..Len(cs) :
          cs[k].s = "backlog" => cs[k].resp = << >> /\ NotClose(cs[k].req) = cs[k].unanswered

\* C17: the server serves one connection at a time; a connection made while
\* another one is served waits, none of its requests being processed, until
\* accept() takes it and _r serves it: the server does not close it unserved.
C17_OneConnectionAtATime ==
    [][/\ OneAtATime(server', conns')
       /\ \A k \in 1..Len(conns) :
             (conns[k].s = "backlog" /\ conns[k].c = "open" /\ conns[k].behind # 0)
                => \/ conns'[k].s = "backlog"
                   \/ conns'[k].s = "open" /\ server.pc = "accept"]_vars

\* This step ends accept() for connection k: the listener takes it from the
\* backlog, or deliver_challenge has read what its client answered.
AcceptEnds(k) ==
    \/ server.pc = "accept" /\ conns[k].s = "backlog" /\ conns'[k].s # "backlog"
                            /\ server'.pc # "auth"
    \/ server.pc = "auth" /\ server.connection = k /\ server'.pc # "auth"

\* C28 (a failed authentication does not take the server down): when accept()
\* ends for the connection of a client whose secret is not the server's,
\* run() goes on: it serves no such client and has not terminated.
C28_AuthFailureSurvived ==
    [][\A k \in 1..Len(conns) :
          (AcceptEnds(k) /\ server.secret # None
                         /\ client[conns[k].owner].secret # server.secret)
             => server'.pc \in {"loop", "accept"} /\ server'.error = "none"]_vars

----------------------------------------------------------------------------
(* Properties of the serve loop, checked under SpecServe.                   *)

\* This step is an iteration of _r that received the oldest request of
\* connection k.
ServesRequest(k) ==
    /\ server.pc = "serve" /\ server.connection = k
    /\ conns[k].req # << >>
    /\ conns'[k].req = Tail(conns[k].req)

\* The step left exactly one more response for the client of connection k,
\* with this status, answering the request received.
OneResponse(k, status) ==
    /\ Len(conns'[k].resp) = Len(conns[k].resp) + 1
    /\ SubSeq(conns'[k].resp, 1, Len(conns[k].resp)) = conns[k].resp
    /\ conns'[k].resp[Len(conns'[k].resp)].status = status
    /\ conns'[k].resp[Len(conns'[k].resp)].request = Head(conns[k].req)

\* After the step _r is still serving connection k.
StillServing(k) ==
    server'.pc = "serve" /\ server'.connection = k /\ server'.error = "none"

\* The request names a registered callable that raises on its arguments.
RaisingRequest(m) ==
    LET n == Lower(m.command) IN
    /\ n \notin auxiliary_calls
    /\ has_registered(registered_calls, n)
    /\ Apply(Get(registered_calls, n), m.args, m.kwargs, attr).kind = "raise"

\* C11: after a request whose callable raises, whatever it raises, the server
\* has sent exactly one ERROR_FORWARDED response and still serves the same
\* connection; the serve loop ends only on end-of-stream, on a connection
\* reset, or on a close request.
C11_InvocationFailureIsolated ==
    [][\A k \in 1..Len(conns) :
          /\ (ServesRequest(k) /\ RaisingRequest(Head(conns[k].req)) /\ conns[k].serr = "none")
                => OneResponse(k, CtrlMsg.ERROR_FORWARDED) /\ StillServing(k)
          /\ (server.pc = "serve" /\ server.connection = k /\ server'.pc # "serve")
                => \/ conns[k].req = << >>
                   \/ Lower(Head(conns[k].req).command) = str_close
                   \/ conns[k].serr # "none"]_vars

\* C16: on every connection, the responses waiting to be read answer, one
\* each and in the order written, the oldest requests the client wrote and
\* has no response to yet, and the requests not answered yet are those the
\* server has still to receive: no response is dropped, duplicated or
\* reordered.
C16_StrictFIFO ==
    \A k \in 1..Len(conns) :
       conns[k].c = "open" =>
          /\ IsPrefix(AnsweredBy(conns[k].resp), conns[k].unanswered)
          /\ conns[k].s # "closed" =>
                conns[k].unanswered = AnsweredBy(conns[k].resp) \o NotClose(conns[k].req)

\* What the claim has a help request answered with.
HelpText(m) ==
    IF Len(m.args) = 0
    THEN help_client(registered_calls, registered_props)
    ELSE LET target == m.args[1].v IN
         IF has_registered(registered_calls, target)
         THEN IF Doc(Get(registered_calls, target)) = None THEN str_no_help
              ELSE Doc(Get(registered_calls, target))
         ELSE NotRegisteredReply(target) \o <<10>>
              \o help_client(registered_calls, registered_props)

\* C18: a help request (without argument, with a registered name, or with an
\* unknown name) is answered with exactly one INFO response: the listing of
\* the user commands, the documentation of the named command, or an
\* explanation followed by the listing. No registered callable runs, and _r
\* goes on serving the connection.
C18_HelpOnlyInfo ==
    [][\A k \in 1..Len(conns) :
          LET m == Head(conns[k].req) IN
          (/\ ServesRequest(k) /\ conns[k].serr = "none"
           /\ Lower(m.command) = str_help
           /\ Len(m.args) = 0 \/ m.args[1].t = "str")
          => /\ OneResponse(k, CtrlMsg.INFO)
             /\ conns'[k].resp[Len(conns'[k].resp)].data = PyStr(HelpText(m))
             /\ conns'[k].resp[Len(conns'[k].resp)].invoked = NoCall
             /\ attr' = attr
             /\ StillServing(k)]_vars

\* A client's call of help with an unknown name returned, and the server
\* serves on.
C18_Witness ==
    \E c \in Clients :
       /\ client[c].pc = "idle" /\ client[c].out.op = "call"
       /\ client[c].out.request = Request(str_help, <<PyStr(str_zz)>>, << >>)
       /\ client[c].out.answers = client[c].out.request
       /\ client[c].out.status = CtrlMsg.INFO /\ client[c].out.kind = "return"
       /\ server.pc = "serve" /\ server.connection = client[c].connection

\* The stub of Stubs that forwards this command.
StubOf(command) == CHOOSE stub \in Stubs : stub.command = command

\* C19: a stub invoked with arguments that do not match the signature of its
\* method or accessor raises TypeError at once, and neither the connections
\* nor the client's connection change; invoked with matching arguments it
\* is the call of its command with those arguments.
C19_StubsFailFast ==
    [][\A c \in Clients :
          (client'[c].n = client[c].n + 1 /\ client'[c].out.via # None) =>
             LET o    == client'[c].out
                 stub == StubOf(o.via)
             IN  IF ~BindOK(Params(Closure("none", stub.command, stub.method)),
                            o.request.args, o.request.kwargs)
                 THEN /\ client'[c].pc = "idle"
                      /\ o.kind = "raise" /\ o.val.t = "TypeError"
                      /\ conns' = conns
                      /\ client'[c].connection = client[c].connection
                 ELSE /\ o.op = "call"
                      /\ o.request.command = stub.command]_vars

----------------------------------------------------------------------------
(* Properties of call() next to write(), read() and drain(), and of         *)
(* requests that are no well-formed message, checked under SpecRaw.         *)

\* C27 (call() returns the response to its own request): whatever write(),
\* read(), drain() and call() went before on the connection, the reply a
\* call() of a well-formed request ends with answers the request this
\* call() wrote.
C27_CallReadsOwnReply ==
    \A c \in Clients :
       (CallAnswered(c) /\ IsStr(client[c].out.request.command))
          => client[c].out.answers = client[c].out.request

\* C30 (a malformed request does not end the serve loop): after _r has
\* received a request whose command is no string, no exception has left
\* _r: it still serves the connection, or has left the loop to listen again.
C30_MalformedSurvived ==
    [][\A k \in 1..Len(conns) :
          (ServesRequest(k) /\ ~IsStr(Head(conns[k].req).command))
             => server'.pc \in {"serve", "finally"} /\ server'.error = "none"]_vars

====
